---------------------------- MODULE Spec2Model ----------------------------
(***************************************************************************)
(* A model of the nova fairness service (sdmueller/novafairness):          *)
(* one FairnessManager per compute host, the CloudSupply registry each     *)
(* manager owns, the supply gossip between managers and the membership     *)
(* oracle (servicegroup API) they all query.                               *)
(***************************************************************************)
EXTENDS Integers, Sequences, FiniteSets, Bags, TLC

(***************************************************************************)
(* Bounds of the model.                                                    *)
(***************************************************************************)
\* The wall clock stops advancing here (restarts and RUI ticks consume time).
MaxClock == 2
\* Casts that may be in flight at once, per kind of cast.
MaxInFlight == 2
\* Hosts leaving the service group and oracle outages in one run (a host that
\* left may join again, the oracle may recover).
MaxMemberChanges == 1

(***************************************************************************)
(* The environment: the compute hosts and what the capacity probes of      *)
(* cloud_supply.py return on each of them.                                 *)
(***************************************************************************)
Hosts == {"A", "B"}

\* Python's None, where a host name or a text is expected.
None == "None"

\* _get_bogomips(), per host (1 is the default when cpuinfo is unreadable).
BogoMipsOf == [h \in Hosts |-> IF h = "A" THEN 2 ELSE 1]
\* multiprocessing.cpu_count(), per host.
CpuCountOf == [h \in Hosts |-> 2]
\* _get_disk_speeds(): 0 is the default when the probe fails.
DiskSpeedsOf == [h \in Hosts |-> IF h = "B" THEN 0 ELSE 1]
\* _get_installed_memory(), in kB.
InstalledMemoryOf == [h \in Hosts |-> 4]
\* _get_boottime(): the instant the host booted (before the clock starts).
BootTimeOf == [h \in Hosts |-> 0]

\* CONF.fairness.max_network_throughput, in Mbit/s (configured to 1 here).
max_network_throughput == 1
\* The factor from Mbit/s to bytes/s.
BytesPerMbit == 125000

VARIABLES
    now,              \* the wall clock (time.time(), timeutils.utcnow())
    members,          \* servicegroup_api.get_all("fairness") when available
    oracleUp,         \* FALSE: get_all returns ServiceGroupUnavailable
    memberChanges,    \* how many hosts left or outages began (bounded)
    localSupply,      \* CloudSupply._local_supply, per host
    remoteSupplies,   \* CloudSupply._remote_supplies, per host: a dict
    ready,            \* CloudSupply.ready, per host
    supplyCasts,      \* receive_host_supply casts in flight: a bag
    instances,        \* InstanceList.get_by_host(host): a dict by instance name
    domains,          \* the libvirt domain of each instance
    allocUserCount,   \* ResourceAllocation.user_count, per host (may be None)
    resourceDecayFactor,  \* CONF.fairness.resource_decay_factor as configured
    lastCollectionTime,       \* RUICollectionHelper._last_collection_time
    timeSinceLastCollection,  \* RUICollectionHelper._time_since_last_collection
    helpers,          \* RUICollectionHelper: its three dicts and its RUIStats, per host
    fairnessQuota,    \* FairnessManager._fairness_quota
    globalNorm,       \* FairnessManager._global_norm
    activeMetric,     \* FairnessManager._active_metric, per host
    fairnessHeavinesses,  \* FairnessManager._fairness_heavinesses: host -> queue
    heavCasts,        \* receive_heavinesses casts in flight: a bag
    reallocations,    \* ResourceAllocation.reallocate() calls running, per host
    triggers,         \* reallocate() calls waiting for the running one, per host
    lastStored,       \* history: the timestamp last stored for a host
    maxReceived,      \* history: greatest timestamp added since the entry exists
    castLost,         \* history: some supply cast was lost in transit
    lastOp            \* trace: the handler that ran last and the casts it made

envVars == <<now, members, oracleUp, memberChanges>>

instVars == <<instances, domains, allocUserCount, resourceDecayFactor>>

ruiVars == <<lastCollectionTime, timeSinceLastCollection, helpers, fairnessQuota, globalNorm, activeMetric>>

heavVars == <<fairnessHeavinesses, heavCasts, reallocations, triggers>>

supplyVars == <<localSupply, remoteSupplies, ready, supplyCasts>>

histVars == <<lastStored, maxReceived, castLost>>

vars == <<envVars, instVars, supplyVars, ruiVars, heavVars, histVars, lastOp>>

(***************************************************************************)
(* Dictionaries are functions with a changing domain.                      *)
(***************************************************************************)
EmptyDict == [k \in {} |-> None]

DictPut(d, k, v) == [x \in (DOMAIN d) \cup {k} |-> IF x = k THEN v ELSE d[x]]

DictDel(d, k) == [x \in (DOMAIN d) \ {k} |-> d[x]]

DictRestrict(d, keep) == [x \in (DOMAIN d) \cap keep |-> d[x]]


(***************************************************************************)
(* Numbers.  A Python number is [n, d, fl]: the value n/d in lowest terms  *)
(* with d > 0, and fl says that it is a float (an int has d = 1).  Floats  *)
(* are exact rationals here (no rounding).  The IEEE values numpy can      *)
(* produce have d = 0: 1/0 is inf, -1/0 is -inf, 0/0 is nan.               *)
(***************************************************************************)
Abs(x) == IF x < 0 THEN -x ELSE x

RECURSIVE Gcd(_, _)
Gcd(a, b) == IF b = 0 THEN a ELSE Gcd(b, a % b)

Sign(x) == IF x > 0 THEN 1 ELSE IF x < 0 THEN -1 ELSE 0

\* n/d in lowest terms, d # 0.
Ratio(n, d, fl) ==
    LET g == Gcd(Abs(n), Abs(d))
    IN  [n |-> Sign(d) * (n \div g), d |-> Abs(d) \div g, fl |-> fl]

PyInt(x) == [n |-> x, d |-> 1, fl |-> FALSE]

PyFloat(n, d) == Ratio(n, d, TRUE)

Inf == [n |-> 1, d |-> 0, fl |-> TRUE]

NegInf == [n |-> -1, d |-> 0, fl |-> TRUE]

NaN == [n |-> 0, d |-> 0, fl |-> TRUE]

IsFinite(a) == a.d # 0

\* float(a)
ToFloat(a) == [a EXCEPT !.fl = TRUE]

\* a + b, a - b, a * b; the operands are finite in the manager's own arithmetic,
\* the IEEE cases arise in numpy only.
NumAdd(a, b) ==
    IF IsFinite(a) /\ IsFinite(b)
    THEN LET l == (a.d \div Gcd(a.d, b.d)) * b.d
         IN  Ratio(a.n * (l \div a.d) + b.n * (l \div b.d), l, a.fl \/ b.fl)
    ELSE IF a = NaN \/ b = NaN THEN NaN
    ELSE IF ~IsFinite(a) /\ ~IsFinite(b) THEN (IF a = b THEN a ELSE NaN)
    ELSE IF ~IsFinite(a) THEN a ELSE b

NumNeg(a) == [a EXCEPT !.n = -a.n]

NumSub(a, b) == NumAdd(a, NumNeg(b))

NumMul(a, b) ==
    IF IsFinite(a) /\ IsFinite(b)
    THEN LET g1 == Gcd(Abs(a.n), b.d)
             g2 == Gcd(Abs(b.n), a.d)
         IN  Ratio((a.n \div g1) * (b.n \div g2), (a.d \div g2) * (b.d \div g1),
                   a.fl \/ b.fl)
    ELSE IF a = NaN \/ b = NaN \/ a.n = 0 \/ b.n = 0 THEN NaN
    ELSE IF Sign(a.n) * Sign(b.n) > 0 THEN Inf ELSE NegInf

\* a < b, a <= b, a = 0 for finite a, b.
NumLt(a, b) == a.n * b.d < b.n * a.d

NumLe(a, b) == a.n * b.d <= b.n * a.d

NumIsZero(a) == IsFinite(a) /\ a.n = 0

\* Python 2's a / b for b # 0: floor division of two ints, true division
\* as soon as one operand is a float.
PyDiv(a, b) ==
    IF a.fl \/ b.fl
    THEN NumMul(a, Ratio(b.d, b.n, TRUE))
    ELSE PyInt((a.n) \div (b.n))

\* numpy.divide on floats: x/0 is inf, -inf or nan (a warning, no exception).
NpDivide(a, b) ==
    IF ~IsFinite(a) \/ ~IsFinite(b)
    THEN (IF a = NaN \/ b = NaN \/ (~IsFinite(a) /\ ~IsFinite(b)) THEN NaN
          ELSE IF ~IsFinite(b) THEN PyFloat(0, 1)
          ELSE IF Sign(a.n) * Sign(b.n) >= 0 THEN a ELSE NumNeg(a))
    ELSE IF b.n = 0
         THEN (IF a.n > 0 THEN Inf ELSE IF a.n < 0 THEN NegInf ELSE NaN)
         ELSE NumMul(ToFloat(a), Ratio(b.d, b.n, TRUE))

(***************************************************************************)
(* CloudSupply.HostSupply and its JSON form.                               *)
(***************************************************************************)
\* A host boot time held as a datetime object.
DateTime(t) == [kind |-> "datetime", t |-> t]

\* The same instant as the text "%Y-%m-%dT%H:%M:%S.000000" JSON carries.
IsoText(t) == [kind |-> "unicode", t |-> t]

HostSupply(compute_host, host_boottime, cpu_cores_weighted, disk_speeds, network_throughput, memory_used, supply_created_at) ==
    [compute_host |-> compute_host,
     host_boottime |-> host_boottime,
     cpu_cores_weighted |-> cpu_cores_weighted,
     disk_speeds |-> disk_speeds,
     network_throughput |-> network_throughput,
     memory_used |-> memory_used,
     supply_created_at |-> supply_created_at]

\* HostSupply.to_json: jsonutils.dumps writes a datetime as its ISO text.
ToJson(supply) ==
    [supply EXCEPT !.host_boottime =
        IF supply.host_boottime.kind = "datetime"
        THEN IsoText(supply.host_boottime.t)
        ELSE supply.host_boottime]

\* HostSupply.from_json: every field as jsonutils.loads returns it.
FromJson(json_string) == json_string

\* CloudSupply._calculate_local_host_supply, at wall-clock time t on host h.
CalculateLocalHostSupply(h, t) ==
    HostSupply(h, DateTime(BootTimeOf[h]), CpuCountOf[h] * BogoMipsOf[h],
               DiskSpeedsOf[h], max_network_throughput * BytesPerMbit,
               InstalledMemoryOf[h], t)

(***************************************************************************)
(* CloudSupply: the registry of host supplies.                             *)
(***************************************************************************)
\* The live members as a manager learns them from servicegroup_api.get_all:
\* none is known while the API is unavailable.
LiveMembers == IF oracleUp THEN members ELSE {}

\* A variant that forgets the ServiceGroupUnavailable branch.
AllHostSuppliesCollectedNoOutage(rs) == \A host \in members : host \in DOMAIN rs

\* CloudSupply._all_host_supplies_collected, on the registry rs.
AllHostSuppliesCollected(rs) ==
    IF oracleUp
    THEN \A host \in members : host \in DOMAIN rs
    ELSE FALSE

\* CloudSupply.check_readiness: the value it assigns to self.ready.
CheckReadiness(rs) == AllHostSuppliesCollected(rs)

\* A variant with the membership test inverted.
MissingHostsInverted(rs) ==
    IF oracleUp
    THEN {host \in members : host \in DOMAIN rs}
    ELSE {}

\* CloudSupply.missing_hosts.
MissingHosts(rs) ==
    IF oracleUp
    THEN {host \in members : host \notin DOMAIN rs}
    ELSE {}

\* A variant that removes nothing.
FilterOfflineHostsNever(self, rs) == rs

\* A variant without the exemption of the manager's own host.
FilterOfflineHostsOwnToo(self, rs) ==
    IF oracleUp
    THEN [host \in {x \in DOMAIN rs : ~(x \notin members)} |-> rs[host]]
    ELSE rs

\* CloudSupply._filter_offline_hosts of the manager on host self.
FilterOfflineHosts(self, rs) ==
    IF oracleUp
    THEN [host \in {x \in DOMAIN rs : ~(x \notin members /\ ~(x = self))} |-> rs[host]]
    ELSE rs

\* The boot-time coercion at the head of CloudSupply.add_supply.
CoerceBootTime(supply) ==
    IF supply.host_boottime.kind = "unicode"
    THEN [supply EXCEPT !.host_boottime = DateTime(supply.host_boottime.t)]
    ELSE supply

\* A variant that stores whatever arrives last.
AddSupplyLastWins(rs, supply) ==
    DictPut(rs, CoerceBootTime(supply).compute_host, CoerceBootTime(supply))

\* A variant with the comparison of the timestamps reversed.
AddSupplyOlderWins(rs, supply) ==
    LET s == CoerceBootTime(supply)
    IN  IF s.compute_host \notin DOMAIN rs
        THEN DictPut(rs, s.compute_host, s)
        ELSE IF s.supply_created_at < rs[s.compute_host].supply_created_at
             THEN DictPut(rs, s.compute_host, s)
             ELSE rs

\* CloudSupply.add_supply: the registry it leaves (check_readiness follows).
AddSupply(rs, supply) ==
    LET s == CoerceBootTime(supply)
    IN  IF s.compute_host \notin DOMAIN rs
        THEN DictPut(rs, s.compute_host, s)
        ELSE IF s.supply_created_at > rs[s.compute_host].supply_created_at
             THEN DictPut(rs, s.compute_host, s)
             ELSE rs


(***************************************************************************)
(* metrics.BaseMetric.ResourceInformation: six numbers and three tags.     *)
(***************************************************************************)
ResourceFields == {"cpu_time", "disk_bytes_read", "disk_bytes_written", "network_bytes_received", "network_bytes_transmitted", "memory_used"}

ResourceInformation(cpu_time, disk_bytes_read, disk_bytes_written, network_bytes_received, network_bytes_transmitted, memory_used, compute_host, user_id, instance_name) ==
    [cpu_time |-> cpu_time,
     disk_bytes_read |-> disk_bytes_read,
     disk_bytes_written |-> disk_bytes_written,
     network_bytes_received |-> network_bytes_received,
     network_bytes_transmitted |-> network_bytes_transmitted,
     memory_used |-> memory_used,
     compute_host |-> compute_host,
     user_id |-> user_id,
     instance_name |-> instance_name]

\* ResourceInformation(0, 0, 0, 0, 0, 0)
ZeroResourceInformation ==
    ResourceInformation(PyInt(0), PyInt(0), PyInt(0), PyInt(0), PyInt(0), PyInt(0),
                        None, None, None)

\* ResourceInformation.__mul__ with a number.
MulNumber(self, other) ==
    [f \in DOMAIN self |-> IF f \in ResourceFields THEN NumMul(self[f], other) ELSE self[f]]

\* ResourceInformation.__mul__ with a ResourceInformation.
MulResource(self, other) ==
    [f \in DOMAIN self |-> IF f \in ResourceFields THEN NumMul(self[f], other[f]) ELSE self[f]]

\* A variant that takes the tags of the right operand.
AddResourceTagsOfOther(self, other) ==
    [f \in DOMAIN self |-> IF f \in ResourceFields THEN NumAdd(self[f], other[f]) ELSE other[f]]

\* ResourceInformation.__add__ with a ResourceInformation.
AddResource(self, other) ==
    [f \in DOMAIN self |-> IF f \in ResourceFields THEN NumAdd(self[f], other[f]) ELSE self[f]]

\* ResourceInformation.__div__ with a number (not 0).
DivNumber(self, other) ==
    [f \in DOMAIN self |-> IF f \in ResourceFields THEN PyDiv(self[f], other) ELSE self[f]]

\* ResourceInformation.__div__ with a ResourceInformation (no field of it 0).
DivResource(self, other) ==
    [f \in DOMAIN self |-> IF f \in ResourceFields THEN PyDiv(self[f], other[f]) ELSE self[f]]

\* Python's / raises ZeroDivisionError for a divisor 0 or 0.0, so __div__
\* raises it for the number 0 and for a ResourceInformation with a field 0.
DivNumberRaises(self, other) == NumIsZero(other)

DivResourceRaises(self, other) == \E f \in ResourceFields : NumIsZero(other[f])

(***************************************************************************)
(* CloudSupply: the supplies for an interval.                              *)
(***************************************************************************)
\* A variant that multiplies the installed memory by the interval as well.
SupplyOverMemoryScaled(supply, interval, compute_host) ==
    ResourceInformation(PyInt(supply.cpu_cores_weighted * interval),
                        PyInt(supply.disk_speeds * interval),
                        PyInt(supply.disk_speeds * interval),
                        PyInt(supply.network_throughput * interval),
                        PyInt(supply.network_throughput * interval),
                        PyInt(supply.memory_used * interval),
                        compute_host, None, None)

\* The ResourceInformation of one HostSupply over interval seconds, as
\* get_host_supply and the loop body of get_cloud_supply compute it.
SupplyOver(supply, interval, compute_host) ==
    ResourceInformation(PyInt(supply.cpu_cores_weighted * interval),
                        PyInt(supply.disk_speeds * interval),
                        PyInt(supply.disk_speeds * interval),
                        PyInt(supply.network_throughput * interval),
                        PyInt(supply.network_throughput * interval),
                        PyInt(supply.memory_used),
                        compute_host, None, None)

\* CloudSupply.get_host_supply.
GetHostSupply(self, interval) == SupplyOver(localSupply[self], interval, self)

\* The sum get_cloud_supply forms over the hosts of the set todo of registry rs.
RECURSIVE SumSupplies(_, _, _, _)
SumSupplies(rs, todo, interval, acc) ==
    IF todo = {} THEN acc
    ELSE LET host == CHOOSE h \in todo : TRUE
         IN  SumSupplies(rs, todo \ {host}, interval,
                         AddResource(acc, SupplyOver(rs[host], interval, None)))

\* CloudSupply.get_cloud_supply, on the registry rs already filtered.
GetCloudSupply(self, rs, interval) ==
    SumSupplies(rs, DOMAIN rs, interval,
                [ZeroResourceInformation EXCEPT !.compute_host = self])

\* CONF.cpu_allocation_ratio, CONF.disk_allocation_ratio, CONF.ram_allocation_ratio.
cpu_allocation_ratio == PyFloat(2, 1)

disk_allocation_ratio == PyFloat(1, 1)

ram_allocation_ratio == PyFloat(3, 2)

\* CloudSupply.get_overcommitment.
GetOvercommitment ==
    ResourceInformation(cpu_allocation_ratio, disk_allocation_ratio,
                        disk_allocation_ratio, PyInt(1), PyInt(1),
                        ram_allocation_ratio, None, None, None)

(***************************************************************************)
(* metrics.greediness.GreedinessMetric.                                    *)
(***************************************************************************)
\* The order of the six resources in the metric's arrays.
ResourceOrder == <<"cpu_time", "disk_bytes_read", "disk_bytes_written", "network_bytes_received", "network_bytes_transmitted", "memory_used">>

\* GreedinessMetric.normalizer
normalizer == PyFloat(1, 1)

\* The discount map() passes to _greediness_raw.
discount == PyFloat(1, 1)

\* x <= s + self.floating_error, with floating_error = 0.00000000001:
\* x - s = n/d is at most 10^-11 iff n <= 0 or d/n >= 10^11.
WithinFloatingError(x, s) ==
    LET e == NumSub(x, s)
    IN  e.n <= 0 \/ ((e.d \div e.n) \div 100000) >= 1000000

\* numpy.sum of the numbers f[x], x in S.
RECURSIVE NpSum(_, _)
NpSum(f, S) ==
    IF S = {} THEN PyFloat(0, 1)
    ELSE LET x == CHOOSE y \in S : TRUE
         IN  NumAdd(f[x], NpSum(f, S \ {x}))

\* gez, lez, duc and not_zero of _greediness_raw.
Gez(a) == IF a.n > 0 THEN ToFloat(a) ELSE PyFloat(0, 1)

Lez(a) == IF a.n < 0 THEN ToFloat(a) ELSE PyFloat(0, 1)

\* A variant of duc that does not bound the ratio.
DucUnbounded(a) == ToFloat(a)

Duc(a) == IF NumLt(PyFloat(-1, 1), a) THEN ToFloat(a) ELSE PyFloat(-1, 1)

NotZero(a) == IF a.n # 0 THEN ToFloat(a) ELSE PyFloat(-1, 1)

\* The array _greediness_raw sums over the resources: endowments and demands
\* are matrices [instance][resource], factor the global norm.
GreedinessTerms(endowments, demands, factor, disc) ==
    LET names == DOMAIN demands
        diff_to_equal_share == [i \in names |-> [k \in ResourceFields |->
                                   NumSub(demands[i][k], endowments[i][k])]]
        pos_dem == [i \in names |-> [k \in ResourceFields |-> Gez(diff_to_equal_share[i][k])]]
        neg_dem == [i \in names |-> [k \in ResourceFields |-> Lez(diff_to_equal_share[i][k])]]
        ratio == [k \in ResourceFields |->
                     NpDivide(NpSum([i \in names |-> pos_dem[i][k]], names),
                              NotZero(NpSum([i \in names |-> neg_dem[i][k]], names)))]
    IN  [i \in names |-> [k \in ResourceFields |->
            NumMul(NumSub(pos_dem[i][k],
                          NumMul(NumMul(disc, neg_dem[i][k]), Duc(ratio[k]))),
                   factor[k])]]

\* GreedinessMetric._greediness_raw: one number per instance.
GreedinessRaw(endowments, demands, factor, disc) ==
    LET terms == GreedinessTerms(endowments, demands, factor, disc)
    IN  [i \in DOMAIN demands |-> NpSum(terms[i], ResourceFields)]

\* The assertions of GreedinessMetric._initialize_raw on the arrays.
InitializeRawAsserts(supply, demands, endowments) ==
    /\ \A i \in DOMAIN demands : \A k \in ResourceFields : demands[i][k].n >= 0
    /\ DOMAIN endowments = DOMAIN demands
    /\ \A i \in DOMAIN endowments : \A k \in ResourceFields : endowments[i][k].n >= 0
    /\ \A k \in ResourceFields :
          WithinFloatingError(NpSum([i \in DOMAIN endowments |-> endowments[i][k]],
                                    DOMAIN endowments),
                              supply[k])

\* GreedinessMetric._initialize_raw: the global norm.
InitializeRaw(supply, user_count) ==
    [k \in ResourceFields |->
        NpDivide(PyDiv(NumMul(PyInt(user_count), normalizer),
                       NumMul(PyFloat(1, 1), PyInt(Len(ResourceOrder)))),
                 supply[k])]

\* GreedinessMetric.map raises: a demand that is None (AttributeError), a
\* demand without endowment (KeyError) or a failed assertion of
\* _initialize_raw.
MapRaises(supply, demands, endowments) ==
    \/ \E i \in DOMAIN demands : demands[i] = <<>>
    \/ ~(DOMAIN demands \subseteq DOMAIN endowments)
    \/ ~InitializeRawAsserts(supply, [i \in DOMAIN demands |-> demands[i][1]],
                             [i \in DOMAIN demands |-> endowments[i]])

\* The order in which dict.iteritems() visits the keys S of a dict: some
\* order, the same for the same keys.
RECURSIVE IterKeys(_)
IterKeys(S) ==
    IF S = {} THEN <<>>
    ELSE LET x == CHOOSE y \in S : TRUE
         IN  <<x>> \o IterKeys(S \ {x})

\* A variant that reads the heaviness of every instance from the first row.
GreedinessMapInFirstRow(order, supply, instance_demands, endowments, user_count) ==
    LET rows == 1..Len(order)
        demand_arrays == [c \in rows |-> instance_demands[order[c]][1]]
        endowment_arrays == [c \in rows |-> endowments[order[c]]]
        instance_infos == [c \in rows |-> demand_arrays[c]]
        norm == InitializeRaw(supply, user_count)
        greediness_array == GreedinessRaw(endowment_arrays, demand_arrays, norm, discount)
        names == {instance_infos[c].instance_name : c \in rows}
        last(name) == CHOOSE c \in rows :
                          /\ instance_infos[c].instance_name = name
                          /\ \A d \in rows : instance_infos[d].instance_name = name => d <= c
    IN  [key \in {"compute_host", "global_norm"} \cup names |->
            IF key = "compute_host" THEN supply.compute_host
            ELSE IF key = "global_norm" THEN [j \in 1..Len(ResourceOrder) |-> norm[ResourceOrder[j]]]
            ELSE [compute_host |-> instance_infos[last(key)].compute_host,
                  user_id |-> instance_infos[last(key)].user_id,
                  normalized_endowment |->
                      NpSum([k \in ResourceFields |->
                                NumMul(endowment_arrays[last(key)][k], norm[k])],
                            ResourceFields),
                  heaviness |-> ToFloat(greediness_array[1])]]

\* GreedinessMetric.map when demands.iteritems() visits the instances in the
\* given order: row c of the arrays and instance_infos[c] belong to the
\* instance order[c], and the result is keyed by the instance names (a later
\* row replaces an earlier one of the same name).
GreedinessMapIn(order, supply, instance_demands, endowments, user_count) ==
    LET rows == 1..Len(order)
        demand_arrays == [c \in rows |-> instance_demands[order[c]][1]]
        endowment_arrays == [c \in rows |-> endowments[order[c]]]
        instance_infos == [c \in rows |-> demand_arrays[c]]
        norm == InitializeRaw(supply, user_count)
        greediness_array == GreedinessRaw(endowment_arrays, demand_arrays, norm, discount)
        names == {instance_infos[c].instance_name : c \in rows}
        last(name) == CHOOSE c \in rows :
                          /\ instance_infos[c].instance_name = name
                          /\ \A d \in rows : instance_infos[d].instance_name = name => d <= c
    IN  [key \in {"compute_host", "global_norm"} \cup names |->
            IF key = "compute_host" THEN supply.compute_host
            ELSE IF key = "global_norm" THEN [j \in 1..Len(ResourceOrder) |-> norm[ResourceOrder[j]]]
            ELSE [compute_host |-> instance_infos[last(key)].compute_host,
                  user_id |-> instance_infos[last(key)].user_id,
                  normalized_endowment |->
                      NpSum([k \in ResourceFields |->
                                NumMul(endowment_arrays[last(key)][k], norm[k])],
                            ResourceFields),
                  heaviness |-> ToFloat(greediness_array[last(key)])]]

\* GreedinessMetric.map: the dict it returns when it does not raise.
GreedinessMap(supply, instance_demands, endowments, user_count) ==
    GreedinessMapIn(IterKeys(DOMAIN instance_demands), supply, instance_demands,
                    endowments, user_count)

(***************************************************************************)
(* Python's None and values that may be None: <<>> is None, <<x>> is x.    *)
(***************************************************************************)
PyNone == <<>>

Some(x) == <<x>>

IsNone(o) == o = <<>>

Val(o) == o[1]

(***************************************************************************)
(* The metrics found on a compute host.  A path of a metric is the text    *)
(* 'nova.fairness.metrics.' + root + '.' + object_name, held here as the   *)
(* record of its two parts.                                                *)
(***************************************************************************)
MetricPath(root, object_name) == [root |-> root, object_name |-> object_name]

\* The default of CONF.fairness.active_metric.
active_metric == MetricPath("greediness", "GreedinessMetric")

\* The modules os.walk finds in nova/fairness/metrics (__init__ is skipped)
\* and what dir() lists for each of them.
MetricModules == {"greediness"}

ModuleDir ==
    [root \in MetricModules |->
        {"BaseMetric", "GreedinessMetric", "__builtins__", "__doc__", "__file__",
         "__name__", "__package__", "np"}]

\* The objects of these modules that are metric classes: BaseMetric and the
\* classes that derive from it.
MetricClasses == {"BaseMetric", "GreedinessMetric"}

\* object_name.startswith('_'), for the names that occur.
StartsWithUnderscore(object_name) ==
    object_name \in {"__builtins__", "__doc__", "__file__", "__name__", "__package__"}

\* FairnessManager._get_metric_class: the path of the first object of that
\* name in a module, or None.
GetMetricClass(metric_name) ==
    LET found == {root \in MetricModules :
                     \E object_name \in ModuleDir[root] :
                         /\ ~StartsWithUnderscore(object_name)
                         /\ object_name = metric_name}
    IN  IF found = {} THEN PyNone
        ELSE Some(MetricPath(CHOOSE root \in found : TRUE, metric_name))

\* importutils.import_class(path)().map(...) runs the map of a metric: np is
\* a module and cannot be called, and BaseMetric.map returns None, which
\* _map_rui cannot index.
MetricFails(path) == path # MetricPath("greediness", "GreedinessMetric")

(***************************************************************************)
(* rui_stats.RUIStats.  The object is the record of its _instances dict    *)
(* and of the rows it has appended to the CSV file since it was created    *)
(* (the constructor truncates the file), together with                     *)
(* CONF.fairness.rui_stats_enabled as its methods read it.  An entry of    *)
(* _instances is a dict with some of the keys rui, interval and            *)
(* prioritization.                                                         *)
(***************************************************************************)
\* The default of CONF.fairness.rui_stats_enabled.
rui_stats_enabled == FALSE

\* RUIStats.__init__
InitRuiStats(enabled) == [enabled |-> enabled, instances |-> EmptyDict, rows |-> <<>>]

\* Python's int() of a number.
IntOf(a) ==
    IF a.n >= 0 THEN PyInt(a.n \div a.d) ELSE PyInt(-((-a.n) \div a.d))

\* The row _write_complete_instance writes for an entry with a rui and a
\* prioritization, at time timestamp.
CsvRow(instance_name, entry, timestamp) ==
    LET rui == entry["rui"]
        interval == entry["interval"]
        prioritization == entry["prioritization"]
    IN  [timestamp |-> timestamp,
         instance |-> instance_name,
         heaviness |-> prioritization.heaviness,
         cpu_shares |-> prioritization.cpu_shares,
         cpu_usage |-> IntOf(PyDiv(NumMul(PyInt(100), PyDiv(rui.cpu_time, PyInt(5999))),
                                   PyInt(interval))),
         memory_soft_limit |-> prioritization.memory_soft_limit,
         memory_used |-> rui.memory_used,
         disk_weight |-> prioritization.disk_weight,
         disk_bytes_transferred |-> NumAdd(rui.disk_bytes_written, rui.disk_bytes_read),
         net_priority |-> prioritization.net_priority,
         net_bytes_transferred |-> NumAdd(rui.network_bytes_transmitted,
                                          rui.network_bytes_received)]

\* A variant that writes the row and keeps what it has written.
WriteCompleteInstanceKeeps(stats, instance_name, timestamp) ==
    LET entry == stats.instances[instance_name]
    IN  IF "rui" \in DOMAIN entry /\ "prioritization" \in DOMAIN entry
        THEN [stats EXCEPT !.rows = Append(@, CsvRow(instance_name, entry, timestamp))]
        ELSE stats

\* RUIStats._write_complete_instance
WriteCompleteInstance(stats, instance_name, timestamp) ==
    LET entry == stats.instances[instance_name]
    IN  IF "rui" \in DOMAIN entry /\ "prioritization" \in DOMAIN entry
        THEN [stats EXCEPT
                !.rows = Append(@, CsvRow(instance_name, entry, timestamp)),
                !.instances = DictPut(@, instance_name,
                                  DictDel(DictDel(DictDel(entry, "rui"), "prioritization"),
                                          "interval"))]
        ELSE stats

\* The entry of an instance, created empty if it has none.
EntryOf(stats, instance_name) ==
    IF instance_name \in DOMAIN stats.instances THEN stats.instances[instance_name]
    ELSE EmptyDict

\* RUIStats.add_rui at time timestamp.
AddRui(stats, rui, interval, timestamp) ==
    IF stats.enabled
    THEN LET entry == DictPut(DictPut(EntryOf(stats, rui.instance_name), "rui", rui),
                              "interval", interval)
         IN  WriteCompleteInstance(
                 [stats EXCEPT !.instances = DictPut(@, rui.instance_name, entry)],
                 rui.instance_name, timestamp)
    ELSE stats

\* RUIStats.add_prioritization at time timestamp; prioritization is the dict
\* of its arguments heaviness, cpu_shares, memory_soft_limit, disk_weight and
\* net_priority.
AddPrioritization(stats, instance_name, prioritization, timestamp) ==
    IF stats.enabled
    THEN LET entry == DictPut(EntryOf(stats, instance_name), "prioritization",
                              prioritization)
         IN  WriteCompleteInstance(
                 [stats EXCEPT !.instances = DictPut(@, instance_name, entry)],
                 instance_name, timestamp)
    ELSE stats

(***************************************************************************)
(* FairnessManager.RUICollectionHelper.  A helper is the record            *)
(* [full_demands, interval_demands, endowments, rui_stats] of its three    *)
(* dicts and of the RUIStats it shares with the allocator; the two times   *)
(* it keeps are variables of their own.                                    *)
(***************************************************************************)
\* A variant that leaves the endowment of the instance behind.
RemoveInactiveInstanceKeepsEndowment(helper, instance_name) ==
    [full_demands |-> DictDel(helper.full_demands, instance_name),
     interval_demands |-> DictDel(helper.interval_demands, instance_name),
     endowments |-> helper.endowments,
     rui_stats |-> helper.rui_stats]

\* RUICollectionHelper.remove_inactive_instance
RemoveInactiveInstance(helper, instance_name) ==
    [full_demands |-> DictDel(helper.full_demands, instance_name),
     interval_demands |-> DictDel(helper.interval_demands, instance_name),
     endowments |-> DictDel(helper.endowments, instance_name),
     rui_stats |-> helper.rui_stats]

\* A variant that forgets to subtract the disk bytes written.
NewIntervalDemandWrittenKept(demand, last_full_demand) ==
    ResourceInformation(
        NumSub(demand.cpu_time, last_full_demand.cpu_time),
        NumSub(demand.disk_bytes_read, last_full_demand.disk_bytes_read),
        demand.disk_bytes_written,
        NumSub(demand.network_bytes_received, last_full_demand.network_bytes_received),
        NumSub(demand.network_bytes_transmitted, last_full_demand.network_bytes_transmitted),
        demand.memory_used,
        demand.compute_host, demand.user_id, demand.instance_name)

\* The interval sample add_instance_demand forms from the last full demand.
NewIntervalDemand(demand, last_full_demand) ==
    ResourceInformation(
        NumSub(demand.cpu_time, last_full_demand.cpu_time),
        NumSub(demand.disk_bytes_read, last_full_demand.disk_bytes_read),
        NumSub(demand.disk_bytes_written, last_full_demand.disk_bytes_written),
        NumSub(demand.network_bytes_received, last_full_demand.network_bytes_received),
        NumSub(demand.network_bytes_transmitted, last_full_demand.network_bytes_transmitted),
        demand.memory_used,
        demand.compute_host, demand.user_id, demand.instance_name)

\* The default of CONF.fairness.resource_decay_factor, as float() returns it.
resource_decay_factor == PyFloat(1, 2)

\* A variant with the two weights exchanged.
DecayExchanged(old, new) ==
    AddResource(MulNumber(old, resourceDecayFactor),
                MulNumber(new, NumSub(PyInt(1), resourceDecayFactor)))

\* (old * (1 - decay_factor)) + (new * decay_factor)
Decay(old, new) ==
    AddResource(MulNumber(old, NumSub(PyInt(1), resourceDecayFactor)),
                MulNumber(new, resourceDecayFactor))

\* A variant that stores None for every instance it sees for the first time.
AddInstanceDemandFirstNone(helper, interval, demand) ==
    LET name == demand.instance_name
    IN  IF name \in DOMAIN helper.interval_demands /\ name \in DOMAIN helper.full_demands
        THEN LET new == NewIntervalDemand(demand, helper.full_demands[name])
                 old == helper.interval_demands[name]
             IN  [helper EXCEPT
                    !.interval_demands = DictPut(@, name,
                        IF IsNone(old) THEN Some(new) ELSE Some(Decay(Val(old), new))),
                    !.full_demands = DictPut(@, name, demand),
                    !.rui_stats = IF @.enabled THEN AddRui(@, new, Val(interval), now)
                                  ELSE @]
        ELSE [helper EXCEPT
                !.interval_demands = DictPut(@, name, PyNone),
                !.full_demands = DictPut(@, name, demand)]

\* RUICollectionHelper.add_instance_demand; interval is the helper's
\* _time_since_last_collection.
AddInstanceDemand(helper, interval, demand) ==
    LET name == demand.instance_name
    IN  IF name \in DOMAIN helper.interval_demands /\ name \in DOMAIN helper.full_demands
        THEN LET new == NewIntervalDemand(demand, helper.full_demands[name])
                 old == helper.interval_demands[name]
             IN  [helper EXCEPT
                    !.interval_demands = DictPut(@, name,
                        IF IsNone(old) THEN Some(new) ELSE Some(Decay(Val(old), new))),
                    !.full_demands = DictPut(@, name, demand),
                    !.rui_stats = IF @.enabled THEN AddRui(@, new, Val(interval), now)
                                  ELSE @]
        ELSE [helper EXCEPT
                !.interval_demands = DictPut(@, name,
                    IF IsNone(interval) THEN PyNone ELSE Some(demand)),
                !.full_demands = DictPut(@, name, demand)]

\* RUICollectionHelper.add_instance_endowment
AddInstanceEndowment(helper, endowment) ==
    [helper EXCEPT !.endowments = DictPut(@, endowment.instance_name, endowment)]

\* RUICollectionHelper.get_instance_endowments: the helper it leaves; the
\* dict returned is its endowments.
GetInstanceEndowments(helper, running_instances) ==
    [helper EXCEPT !.endowments = DictRestrict(@, running_instances)]

\* RUICollectionHelper.get_instance_demands: the helper it leaves.
PruneInstanceDemands(helper, running_instances) ==
    LET terminated_instances == (DOMAIN helper.full_demands) \ running_instances
    IN  [helper EXCEPT
            !.full_demands = DictRestrict(@, (DOMAIN @) \ terminated_instances),
            !.interval_demands = DictRestrict(@, (DOMAIN @) \ terminated_instances)]

\* A variant that returns the interval demands whatever they hold.
GetInstanceDemandsInterval(helper) == helper.interval_demands

\* RUICollectionHelper.get_instance_demands: the dict it returns, on the
\* helper already pruned; its values may be None.  all() fails on a None
\* value only.
GetInstanceDemands(helper) ==
    IF ~(\A n \in DOMAIN helper.interval_demands : ~IsNone(helper.interval_demands[n]))
    THEN [n \in DOMAIN helper.full_demands |-> Some(helper.full_demands[n])]
    ELSE helper.interval_demands

(***************************************************************************)
(* FairnessManager._collect_rui: sampling one instance.  A reading is what *)
(* libvirt returns for a domain at the tick: per-vcpu cpu times (ns), per  *)
(* volume and per interface byte counters, and the memory statistics; a    *)
(* call that raises libvirtError is marked error.                          *)
(***************************************************************************)
RECURSIVE SumSeq(_, _)
SumSeq(seq, field) ==
    IF seq = <<>> THEN 0
    ELSE (IF seq[1].error THEN 0 ELSE seq[1][field]) + SumSeq(Tail(seq), field)

\* total_cpu_time before scaling: 0 when domain.vcpus() raises.
TotalCpuTime(cputime) == IF cputime.error THEN 0 ELSE SumSeq(cputime.times, "ns")

\* total_memory_used, from domain.maxMemory() and domain.memoryStats().
TotalMemoryUsed(flavor_memory_total, memory) ==
    IF memory.error THEN flavor_memory_total
    ELSE LET used == IF "unused" \in DOMAIN memory.stats
                     THEN flavor_memory_total - memory.stats["unused"]
                     ELSE IF "rss" \in DOMAIN memory.stats
                          THEN memory.stats["rss"]
                          ELSE flavor_memory_total
         IN  IF used > flavor_memory_total THEN flavor_memory_total ELSE used

\* demand_resource of the instance, from its reading.
InstanceDemand(self, instance, domain, reading) ==
    ResourceInformation(
        PyInt((TotalCpuTime(reading.cputime) \div 1000000000) * BogoMipsOf[self]),
        PyInt(SumSeq(reading.volumes, "rd_bytes")),
        PyInt(SumSeq(reading.volumes, "wr_bytes")),
        PyInt(SumSeq(reading.ifaces, "rx_bytes")),
        PyInt(SumSeq(reading.ifaces, "tx_bytes")),
        PyInt(TotalMemoryUsed(domain.max_memory, reading.memory)),
        instance.host, instance.user_id, instance.name)

\* endowment_resource of the instance.
InstanceEndowment(local_supply, total_vcpus, active_instances, instance, domain) ==
    [DivNumber(local_supply, PyInt(active_instances)) EXCEPT
        !.user_id = instance.user_id,
        !.instance_name = instance.name,
        !.cpu_time = NumMul(PyDiv(local_supply.cpu_time, PyInt(total_vcpus)),
                            PyInt(instance.vcpus)),
        !.memory_used = PyInt(domain.max_memory)]

\* The loop of _collect_rui over the instances todo (run when some instance
\* is active): an inactive domain is removed, an active one is sampled.
RECURSIVE SampleInstances(_, _, _, _, _, _, _, _)
SampleInstances(helper, todo, self, insts, interval, local_supply, readings, counts) ==
    IF todo = {} THEN helper
    ELSE LET name == CHOOSE n \in todo : TRUE
             instance == insts[name]
             domain == domains[name]
             after ==
                 IF ~domain.active
                 THEN RemoveInactiveInstance(helper, name)
                 ELSE AddInstanceEndowment(
                          AddInstanceDemand(helper, interval,
                              InstanceDemand(self, instance, domain, readings[name])),
                          InstanceEndowment(local_supply, counts.total_vcpus,
                                            counts.active_instances, instance, domain))
         IN  SampleInstances(after, todo \ {name}, self, insts, interval,
                             local_supply, readings, counts)

\* sum of instance.vcpus over the instances todo.
RECURSIVE TotalVcpus(_, _)
TotalVcpus(insts, todo) ==
    IF todo = {} THEN 0
    ELSE LET name == CHOOSE n \in todo : TRUE
         IN  insts[name].vcpus + TotalVcpus(insts, todo \ {name})

\* CloudSupply.user_count
CloudUserCount ==
    IF oracleUp
    THEN Cardinality(UNION {{instances[host][n].user_id : n \in DOMAIN instances[host]} :
                               host \in members})
    ELSE 0

(***************************************************************************)
(* Casts.  A cast carries the request context's remote_address and the     *)
(* arguments of the remote method; a bag holds the casts in flight.        *)
(***************************************************************************)
SupplyCast(to, remote_address, json_supply) ==
    [to |-> to, remote_address |-> remote_address, json_supply |-> json_supply]

HeavinessCast(to, remote_address, heavinesses) ==
    [to |-> to, remote_address |-> remote_address, heavinesses |-> heavinesses]

\* The bag with one copy of every element of the set S.
BagOf(S) == [m \in S |-> 1]

\* What a handler leaves in lastOp: its name and host, the supply casts and
\* the heaviness casts it made, what Metric.map returned if it was called and
\* returned, whether it raised, the dict delivered to the host itself,
\* whether reallocate() was called and the hosts that had a heaviness queued
\* when it was; for receive_host_supply also the supply handed to add_supply,
\* the timestamp the registry held for its host before, and the context's
\* remote_address; for _collect_rui also the demand sampled for every active
\* instance, the dict get_instance_demands returned, the arguments of
\* Metric.map if it was called, the user count, the cloud supply and the host
\* supply of the tick; for receive_heavinesses also the departed
\* hosts whose empty queue it removed; for a method called on its own, its
\* arguments, what it returned and whether it raised.
Op(name, host, casts) ==
    [op |-> name, host |-> host, casts |-> casts, heav_casts |-> EmptyBag,
     skipped |-> FALSE, map_result |-> PyNone, map_raised |-> FALSE,
     self_delivered |-> PyNone, reallocated |-> FALSE, queued |-> {},
     added |-> PyNone, previous |-> PyNone, remote_address |-> None,
     sampled |-> EmptyDict, returned |-> EmptyDict, map_args |-> PyNone,
     unblocked |-> {}, args |-> PyNone, result |-> PyNone, raised |-> FALSE,
     user_count |-> PyNone, cloud_supply |-> PyNone, host_supply |-> PyNone]

\* The histories of host self's registry once it has become rs; added is the
\* set of supplies handed to add_supply in this step.
LastStoredAfter(self, rs) ==
    [h \in Hosts |-> IF h \in DOMAIN rs THEN rs[h].supply_created_at
                     ELSE lastStored[self][h]]

MaxReceivedAfter(self, rs, added) ==
    [h \in Hosts |->
        IF h \notin DOMAIN rs THEN 0
        ELSE LET old == IF h \in DOMAIN remoteSupplies[self]
                        THEN maxReceived[self][h] ELSE 0
                 new == {s.supply_created_at : s \in {x \in added : x.compute_host = h}}
             IN  CHOOSE t \in new \cup {old} : \A u \in new \cup {old} : u <= t]

(***************************************************************************)
(* FairnessManager: the supply poll and the supply RPC endpoint.           *)
(***************************************************************************)
\* A variant that answers without asking whether the host is online.
SendHostSupplyUnchecked(self, host) ==
    IF host # None /\ host # self
    THEN BagOf({SupplyCast(host, None, ToJson(localSupply[self]))})
    ELSE EmptyBag

\* A variant whose answer carries the address of the sender, as a poll does.
SendHostSupplyWithAddress(self, host) ==
    IF oracleUp
    THEN IF host # None /\ host # self /\ host \in members
         THEN BagOf({SupplyCast(host, self, ToJson(localSupply[self]))})
         ELSE EmptyBag
    ELSE EmptyBag

\* FairnessManager._send_host_supply: the casts it makes.
SendHostSupply(self, host) ==
    IF oracleUp
    THEN IF host # None /\ host # self /\ host \in members
         THEN BagOf({SupplyCast(host, None, ToJson(localSupply[self]))})
         ELSE EmptyBag
    ELSE EmptyBag

\* A variant that polls every other live member, missing or not.
PollCastsToAll(self) ==
    BagOf({SupplyCast(host, self, ToJson(localSupply[self])) :
              host \in {h \in LiveMembers : h # self}})

\* The casts of FairnessManager._complete_cloud_supply.
PollCasts(self) ==
    BagOf({SupplyCast(host, self, ToJson(localSupply[self])) :
              host \in MissingHosts(remoteSupplies[self])})

\* FairnessManager._complete_cloud_supply: the periodic supply poll.
CompleteCloudSupply(self) ==
    /\ BagCardinality(supplyCasts) + BagCardinality(PollCasts(self)) <= MaxInFlight
    /\ ready' = [ready EXCEPT ![self] = CheckReadiness(remoteSupplies[self])]
    /\ supplyCasts' = supplyCasts (+) PollCasts(self)
    /\ lastOp' = Op("complete_cloud_supply", self, PollCasts(self))
    /\ UNCHANGED <<envVars, instVars, localSupply, remoteSupplies, ruiVars, heavVars, histVars>>

\* FairnessManager.receive_host_supply, handling the cast m.
ReceiveHostSupply(self, m) ==
    LET supply == FromJson(m.json_supply)
        rs == AddSupply(remoteSupplies[self], supply)
        casts == SendHostSupply(self, m.remote_address)
    IN  /\ BagIn(m, supplyCasts)
        /\ m.to = self
        /\ remoteSupplies' = [remoteSupplies EXCEPT ![self] = rs]
        /\ ready' = [ready EXCEPT ![self] = CheckReadiness(rs)]
        /\ supplyCasts' = (supplyCasts (-) BagOf({m})) (+) casts
        /\ lastStored' = [lastStored EXCEPT ![self] = LastStoredAfter(self, rs)]
        /\ maxReceived' = [maxReceived EXCEPT ![self] = MaxReceivedAfter(self, rs, {supply})]
        /\ lastOp' = [Op("receive_host_supply", self, casts) EXCEPT
                         !.added = Some(supply),
                         !.previous = IF supply.compute_host \in DOMAIN remoteSupplies[self]
                                      THEN Some(remoteSupplies[self][supply.compute_host].supply_created_at)
                                      ELSE PyNone,
                         !.remote_address = m.remote_address]
        /\ UNCHANGED <<envVars, instVars, localSupply, ruiVars, heavVars, castLost>>

\* A supply cast is lost in transit.
DropSupplyCast(m) ==
    /\ BagIn(m, supplyCasts)
    /\ supplyCasts' = supplyCasts (-) BagOf({m})
    /\ castLost' = TRUE
    /\ lastOp' = Op("drop_supply_cast", m.to, EmptyBag)
    /\ UNCHANGED <<envVars, instVars, localSupply, remoteSupplies, ready, ruiVars, heavVars, lastStored, maxReceived>>

(***************************************************************************)
(* FairnessManager: the heaviness queues and the heaviness RPC endpoint.   *)
(***************************************************************************)
\* A variant that starts a new queue for every dict.
AddHeavinessesNewQueue(fh, heavinesses) ==
    LET compute_host == heavinesses["compute_host"]
        stripped == DictDel(heavinesses, "compute_host")
    IN  DictPut(fh, compute_host, <<stripped>>)

\* FairnessManager._add_heavinesses, on the dict fh of queues.
AddHeavinesses(fh, heavinesses) ==
    LET compute_host == heavinesses["compute_host"]
        stripped == DictDel(heavinesses, "compute_host")
    IN  IF compute_host \in DOMAIN fh
        THEN DictPut(fh, compute_host, Append(fh[compute_host], stripped))
        ELSE DictPut(fh, compute_host, <<stripped>>)

\* A variant that keeps the queues of the hosts that left.
PurgeHeavinessesNever(fh) == fh

\* FairnessManager._all_heavinesses_collected: the dict of queues it leaves.
PurgeHeavinesses(fh) ==
    IF oracleUp
    THEN [host \in {h \in DOMAIN fh : ~(h \notin members)} |-> fh[host]]
    ELSE fh

\* A variant that is content with one queue that holds a dict.
AllHeavinessesCollectedAny(fh) ==
    IF oracleUp
    THEN fh = EmptyDict \/ \E host \in DOMAIN fh : ~(fh[host] = <<>>)
    ELSE FALSE

\* A variant that forgets the ServiceGroupUnavailable branch.
AllHeavinessesCollectedNoOutage(fh) == \A host \in DOMAIN fh : ~(fh[host] = <<>>)

\* FairnessManager._all_heavinesses_collected: what it returns, on the dict
\* of queues already purged.
AllHeavinessesCollected(fh) ==
    IF oracleUp
    THEN \A host \in DOMAIN fh : ~(fh[host] = <<>>)
    ELSE FALSE

\* ResourceAllocation.reallocate: it takes one heaviness dict off every queue.
Reallocate(fh) == [host \in DOMAIN fh |-> IF fh[host] = <<>> THEN <<>> ELSE Tail(fh[host])]

\* A variant that starts a reallocation whether or not one is running.
ReallocateCallUnserialized(fh, running, waiting) ==
    [queues |-> Reallocate(fh), running |-> running + 1, waiting |-> waiting]

\* A call of ResourceAllocation.reallocate() on the queues fh while running
\* calls run and waiting calls wait: it starts when none runs and waits for
\* the running one otherwise.
ReallocateCall(fh, running, waiting) ==
    IF running = 0
    THEN [queues |-> Reallocate(fh), running |-> 1, waiting |-> waiting]
    ELSE [queues |-> fh, running |-> running, waiting |-> waiting + 1]

\* FairnessManager.receive_heavinesses: the queues it leaves, whether it
\* called reallocate() (and then, the hosts with a heaviness queued), and the
\* calls of reallocate() that run and wait afterwards.
ReceiveHeavinessesOn(fh, heavinesses, running, waiting) ==
    LET purged == PurgeHeavinesses(AddHeavinesses(fh, heavinesses))
    IN  IF AllHeavinessesCollected(purged)
        THEN [queues |-> ReallocateCall(purged, running, waiting).queues,
              reallocated |-> TRUE,
              queued |-> {host \in DOMAIN purged : purged[host] # <<>>},
              running |-> ReallocateCall(purged, running, waiting).running,
              waiting |-> ReallocateCall(purged, running, waiting).waiting,
              unblocked |-> {host \in (DOMAIN fh) \ (DOMAIN purged) : fh[host] = <<>>}]
        ELSE [queues |-> purged, reallocated |-> FALSE, queued |-> {},
              running |-> running, waiting |-> waiting,
              unblocked |-> {host \in (DOMAIN fh) \ (DOMAIN purged) : fh[host] = <<>>}]

\* FairnessManager.receive_heavinesses, handling the cast m from a peer.
ReceiveHeavinesses(self, m) ==
    LET after == ReceiveHeavinessesOn(fairnessHeavinesses[self], m.heavinesses,
                                      reallocations[self], triggers[self])
    IN  /\ BagIn(m, heavCasts)
        /\ m.to = self
        /\ fairnessHeavinesses' = [fairnessHeavinesses EXCEPT ![self] = after.queues]
        /\ heavCasts' = heavCasts (-) BagOf({m})
        /\ reallocations' = [reallocations EXCEPT ![self] = after.running]
        /\ triggers' = [triggers EXCEPT ![self] = after.waiting]
        /\ lastOp' = [Op("receive_heavinesses", self, EmptyBag) EXCEPT
                         !.reallocated = after.reallocated,
                         !.queued = after.queued,
                         !.unblocked = after.unblocked,
                         !.remote_address = m.remote_address]
        /\ UNCHANGED <<envVars, instVars, supplyVars, ruiVars, histVars>>

\* A heaviness cast is lost in transit.
DropHeavinessCast(m) ==
    /\ BagIn(m, heavCasts)
    /\ heavCasts' = heavCasts (-) BagOf({m})
    /\ lastOp' = Op("drop_heaviness_cast", m.to, EmptyBag)
    /\ UNCHANGED <<envVars, instVars, supplyVars, ruiVars, fairnessHeavinesses,
                   reallocations, triggers, histVars>>

\* The running reallocate() of host self returns.
FinishReallocation(self) ==
    /\ reallocations[self] > 0
    /\ reallocations' = [reallocations EXCEPT ![self] = @ - 1]
    /\ lastOp' = Op("finish_reallocation", self, EmptyBag)
    /\ UNCHANGED <<envVars, instVars, supplyVars, ruiVars, fairnessHeavinesses,
                   heavCasts, triggers, histVars>>

\* A waiting call of reallocate() on host self gets its turn: it checks the
\* queues again and reallocates if every queue still holds a heaviness dict.
ResumeTrigger(self) ==
    LET purged == PurgeHeavinesses(fairnessHeavinesses[self])
        collected == AllHeavinessesCollected(purged)
    IN  /\ reallocations[self] = 0
        /\ triggers[self] > 0
        /\ triggers' = [triggers EXCEPT ![self] = @ - 1]
        /\ reallocations' = [reallocations EXCEPT ![self] = IF collected THEN 1 ELSE 0]
        /\ fairnessHeavinesses' = [fairnessHeavinesses EXCEPT ![self] =
                                      IF collected THEN Reallocate(purged) ELSE purged]
        /\ lastOp' = [Op("resume_trigger", self, EmptyBag) EXCEPT
                         !.reallocated = collected,
                         !.queued = IF collected
                                    THEN {host \in DOMAIN purged : purged[host] # <<>>}
                                    ELSE {}]
        /\ UNCHANGED <<envVars, instVars, supplyVars, ruiVars, heavCasts, histVars>>


(***************************************************************************)
(* FairnessManager: the RUI collection task.                               *)
(***************************************************************************)
\* FairnessManager._map_rui when the call of the metric's map raises: nothing
\* is stored or sent.
MapRuiRaised(self, fh) ==
    [raised |-> TRUE, result |-> PyNone, global_norm |-> globalNorm[self],
     casts |-> EmptyBag, self_delivered |-> PyNone,
     queues |-> fh, reallocated |-> FALSE, queued |-> {},
     running |-> reallocations[self], waiting |-> triggers[self], unblocked |-> {}]

\* FairnessManager._map_rui once Metric.map has returned result: the global
\* norm it stores, the casts of the dict remaining to the other members, the
\* delivery to its own receive_heavinesses and the queues that leaves.
MapRuiReturned(self, fh, result, remaining) ==
    LET norm == result["global_norm"]
        stored == ResourceInformation(norm[1], norm[2], norm[3], norm[4], norm[5],
                                      norm[6], None, None, None)
    IN  IF oracleUp
        THEN LET after == ReceiveHeavinessesOn(fh, remaining, reallocations[self],
                                               triggers[self])
             IN  [raised |-> FALSE, result |-> Some(result), global_norm |-> stored,
                  casts |-> BagOf({HeavinessCast(host, self, remaining) :
                                      host \in {h \in members : h # self}}),
                  self_delivered |-> Some(remaining),
                  queues |-> after.queues, reallocated |-> after.reallocated,
                  queued |-> after.queued,
                  running |-> after.running, waiting |-> after.waiting,
                  unblocked |-> after.unblocked]
        ELSE [raised |-> FALSE, result |-> Some(result), global_norm |-> stored,
              casts |-> EmptyBag, self_delivered |-> PyNone,
              queues |-> fh, reallocated |-> FALSE, queued |-> {},
              running |-> reallocations[self], waiting |-> triggers[self],
              unblocked |-> {}]

\* A variant that forgets to delete global_norm from the result.
MapRuiKeepsNorm(self, fh, supply, instance_endowments, instance_demands, user_count) ==
    IF MetricFails(activeMetric[self])
          \/ MapRaises(supply, instance_demands, instance_endowments)
    THEN MapRuiRaised(self, fh)
    ELSE CHOOSE outcome \in
           {MapRuiReturned(self, fh, result, result) :
            result \in {GreedinessMap(supply, instance_demands, instance_endowments,
                                      user_count)}} : TRUE

\* FairnessManager._map_rui on the queues fh.
MapRui(self, fh, supply, instance_endowments, instance_demands, user_count) ==
    IF MetricFails(activeMetric[self])
          \/ MapRaises(supply, instance_demands, instance_endowments)
    THEN MapRuiRaised(self, fh)
    ELSE CHOOSE outcome \in
           {MapRuiReturned(self, fh, result, DictDel(result, "global_norm")) :
            result \in {GreedinessMap(supply, instance_demands, instance_endowments,
                                      user_count)}} : TRUE

\* The instances whose domain _collect_rui reads at this tick.
SampledInstances(self) ==
    IF ready[self] /\ \E n \in DOMAIN instances[self] : instances[self][n].vm_state = "active"
    THEN {n \in DOMAIN instances[self] : domains[n].active}
    ELSE {}

\* A variant that asks the allocator last.
UserCountRegistryFirst(reported, counted) ==
    IF counted > 0 THEN counted
    ELSE IF IsNone(reported) \/ Val(reported) <= 0 THEN 1 ELSE Val(reported)

\* user_count of _collect_rui, from ResourceAllocation.user_count as reported
\* and CloudSupply.user_count as counted.
UserCount(reported, counted) ==
    LET user_count == IF IsNone(reported) THEN counted ELSE Val(reported)
    IN  IF user_count <= 0 THEN 1 ELSE user_count

\* A variant that does not ask for the interval.
MapCalledWithoutInterval(instance_endowments, instance_demands, interval) ==
    /\ DOMAIN instance_endowments # {}
    /\ DOMAIN instance_demands # {}

\* The condition under which _collect_rui calls _map_rui.
MapCalled(instance_endowments, instance_demands, interval) ==
    /\ DOMAIN instance_endowments # {}
    /\ DOMAIN instance_demands # {}
    /\ ~IsNone(interval)

\* What one run of _collect_rui with the registry ready computes, given the
\* readings of the sampled instances.
CollectRuiRun(self, readings) ==
    LET last == lastCollectionTime[self]
        interval == IF IsNone(last) THEN timeSinceLastCollection[self]
                    ELSE Some(now - Val(last))
        insts == instances[self]
        supply_interval == IF IsNone(interval) THEN now - BootTimeOf[self]
                           ELSE Val(interval)
        rs == FilterOfflineHosts(self, remoteSupplies[self])
        cloud_supply == GetCloudSupply(self, rs, supply_interval)
        local_supply == GetHostSupply(self, supply_interval)
        user_count == UserCount(allocUserCount[self], CloudUserCount)
        counts == [active_instances |->
                      Cardinality({n \in DOMAIN insts : insts[n].vm_state = "active"}),
                   total_vcpus |-> TotalVcpus(insts, DOMAIN insts)]
        sampled == IF counts.active_instances > 0
                   THEN SampleInstances(helpers[self], DOMAIN insts, self, insts,
                                        interval, local_supply, readings, counts)
                   ELSE helpers[self]
        helper == PruneInstanceDemands(GetInstanceEndowments(sampled, DOMAIN insts),
                                       DOMAIN insts)
        instance_endowments == helper.endowments
        instance_demands == GetInstanceDemands(helper)
        map_called == MapCalled(instance_endowments, instance_demands, interval)
        mapped == IF map_called
                  THEN MapRui(self, fairnessHeavinesses[self],
                              MulResource(cloud_supply, GetOvercommitment),
                              instance_endowments, instance_demands, user_count)
                  ELSE [raised |-> FALSE, result |-> PyNone,
                        global_norm |-> globalNorm[self], casts |-> EmptyBag,
                        self_delivered |-> PyNone,
                        queues |-> fairnessHeavinesses[self], reallocated |-> FALSE,
                        queued |-> {},
                        running |-> reallocations[self], waiting |-> triggers[self],
                        unblocked |-> {}]
    IN  [interval |-> interval, registry |-> rs,
         fairness_quota |-> DivNumber(cloud_supply, PyInt(user_count)),
         helper |-> helper, map_called |-> map_called, mapped |-> mapped,
         sampled |-> [n \in SampledInstances(self) |->
                         InstanceDemand(self, insts[n], domains[n], readings[n])],
         returned |-> instance_demands,
         user_count |-> user_count, cloud_supply |-> cloud_supply,
         host_supply |-> local_supply,
         map_args |-> IF map_called
                      THEN Some([supply |-> MulResource(cloud_supply, GetOvercommitment),
                                 demands |-> instance_demands,
                                 endowments |-> instance_endowments,
                                 user_count |-> user_count])
                      ELSE PyNone]

\* Periodic ticks of one task happen at different times.
CollectRuiDue(self) ==
    IF IsNone(lastCollectionTime[self]) THEN TRUE ELSE Val(lastCollectionTime[self]) < now

\* FairnessManager._collect_rui when the registry is not ready.
CollectRuiSkipped(self) ==
    /\ lastOp' = [Op("collect_rui", self, EmptyBag) EXCEPT !.skipped = TRUE]
    /\ UNCHANGED <<envVars, instVars, supplyVars, ruiVars, heavVars, histVars>>

\* FairnessManager._collect_rui when the registry is ready.
CollectRuiReady(self, readings) ==
    \E run \in {CollectRuiRun(self, readings)} :
        /\ BagCardinality(heavCasts) + BagCardinality(run.mapped.casts) <= MaxInFlight
        /\ lastCollectionTime' = [lastCollectionTime EXCEPT ![self] = Some(now)]
        /\ timeSinceLastCollection' =
               [timeSinceLastCollection EXCEPT ![self] = run.interval]
        /\ remoteSupplies' = [remoteSupplies EXCEPT ![self] = run.registry]
        /\ fairnessQuota' = [fairnessQuota EXCEPT ![self] = run.fairness_quota]
        /\ helpers' = [helpers EXCEPT ![self] = run.helper]
        /\ globalNorm' = [globalNorm EXCEPT ![self] = run.mapped.global_norm]
        /\ heavCasts' = heavCasts (+) run.mapped.casts
        /\ fairnessHeavinesses' =
               [fairnessHeavinesses EXCEPT ![self] = run.mapped.queues]
        /\ reallocations' = [reallocations EXCEPT ![self] = run.mapped.running]
        /\ triggers' = [triggers EXCEPT ![self] = run.mapped.waiting]
        /\ lastStored' = [lastStored EXCEPT ![self] = LastStoredAfter(self, run.registry)]
        /\ maxReceived' = [maxReceived EXCEPT ![self] =
                              MaxReceivedAfter(self, run.registry, {})]
        /\ lastOp' = [Op("collect_rui", self, EmptyBag) EXCEPT
                         !.heav_casts = run.mapped.casts,
                         !.map_result = run.mapped.result,
                         !.map_raised = run.mapped.raised,
                         !.self_delivered = run.mapped.self_delivered,
                         !.reallocated = run.mapped.reallocated,
                         !.queued = run.mapped.queued,
                         !.unblocked = run.mapped.unblocked,
                         !.sampled = run.sampled,
                         !.returned = run.returned,
                         !.map_args = run.map_args,
                         !.user_count = Some(run.user_count),
                         !.cloud_supply = Some(run.cloud_supply),
                         !.host_supply = Some(run.host_supply)]
        /\ UNCHANGED <<envVars, instVars, localSupply, ready, supplyCasts, castLost, activeMetric>>

\* A variant that calls the helper's start() before it looks at ready.
CollectRuiStartsFirst(self, readings) ==
    /\ CollectRuiDue(self)
    /\ IF ~ready[self]
       THEN /\ lastCollectionTime' = [lastCollectionTime EXCEPT ![self] = Some(now)]
            /\ timeSinceLastCollection' =
                   [timeSinceLastCollection EXCEPT ![self] =
                       IF IsNone(lastCollectionTime[self]) THEN @
                       ELSE Some(now - Val(lastCollectionTime[self]))]
            /\ lastOp' = [Op("collect_rui", self, EmptyBag) EXCEPT !.skipped = TRUE]
            /\ UNCHANGED <<envVars, instVars, supplyVars, helpers, fairnessQuota,
                           globalNorm, activeMetric, heavVars, histVars>>
       ELSE CollectRuiReady(self, readings)

\* FairnessManager._collect_rui: the periodic RUI collection task.
CollectRui(self, readings) ==
    /\ CollectRuiDue(self)
    /\ IF ~ready[self]
       THEN CollectRuiSkipped(self)
       ELSE CollectRuiReady(self, readings)

(***************************************************************************)
(* FairnessManager: the RPC endpoint of the admin API.                     *)
(***************************************************************************)
\* FairnessManager.set_metric: the dict it returns.
SetMetricResult(metric_name) ==
    IF ~IsNone(GetMetricClass(metric_name))
    THEN [status |-> "Metric successfully set."]
    ELSE [status |-> "Metric not found on compute host."]

\* FairnessManager.set_metric on host self.
SetMetric(self, metric_name) ==
    /\ activeMetric' = [activeMetric EXCEPT ![self] =
                           IF ~IsNone(GetMetricClass(metric_name))
                           THEN Val(GetMetricClass(metric_name))
                           ELSE @]
    /\ lastOp' = [Op("set_metric", self, EmptyBag) EXCEPT
                     !.args = Some(metric_name),
                     !.result = Some(SetMetricResult(metric_name))]
    /\ UNCHANGED <<envVars, instVars, supplyVars, lastCollectionTime,
                   timeSinceLastCollection, helpers, fairnessQuota, globalNorm,
                   heavVars, histVars>>

(***************************************************************************)
(* Construction and the environment.                                       *)
(***************************************************************************)
\* CloudSupply.__init__ on host self at time t: the registry it leaves.
InitRemoteSupplies(self, t) == AddSupply(EmptyDict, CalculateLocalHostSupply(self, t))

\* RUICollectionHelper.__init__ with the RUIStats the manager has just
\* created: its three dicts and the statistics.
InitHelperWith(enabled) ==
    [full_demands |-> EmptyDict, interval_demands |-> EmptyDict, endowments |-> EmptyDict,
     rui_stats |-> InitRuiStats(enabled)]

\* The same under the default configuration.
InitHelper == InitHelperWith(rui_stats_enabled)

\* The service on host self is restarted: FairnessManager.__init__ runs anew.
Restart(self) ==
    /\ now < MaxClock
    /\ now' = now + 1
    /\ localSupply' = [localSupply EXCEPT ![self] = CalculateLocalHostSupply(self, now')]
    /\ remoteSupplies' = [remoteSupplies EXCEPT ![self] = InitRemoteSupplies(self, now')]
    /\ ready' = [ready EXCEPT ![self] = CheckReadiness(InitRemoteSupplies(self, now'))]
    /\ lastCollectionTime' = [lastCollectionTime EXCEPT ![self] = PyNone]
    /\ timeSinceLastCollection' = [timeSinceLastCollection EXCEPT ![self] = PyNone]
    /\ helpers' = [helpers EXCEPT ![self] = InitHelperWith(@.rui_stats.enabled)]
    /\ fairnessQuota' = [fairnessQuota EXCEPT ![self] = ZeroResourceInformation]
    /\ globalNorm' = [globalNorm EXCEPT ![self] = ZeroResourceInformation]
    /\ activeMetric' = [activeMetric EXCEPT ![self] = active_metric]
    /\ fairnessHeavinesses' = [fairnessHeavinesses EXCEPT ![self] = EmptyDict]
    /\ reallocations' = [reallocations EXCEPT ![self] = 0]
    /\ triggers' = [triggers EXCEPT ![self] = 0]
    /\ lastStored' = [lastStored EXCEPT ![self] =
                        [h \in Hosts |-> IF h = self THEN now' ELSE 0]]
    /\ maxReceived' = [maxReceived EXCEPT ![self] =
                        [h \in Hosts |-> IF h = self THEN now' ELSE 0]]
    /\ lastOp' = Op("restart", self, EmptyBag)
    /\ UNCHANGED <<members, oracleUp, memberChanges, instVars, supplyCasts, heavCasts, castLost>>

\* Time passes.
AdvanceClock ==
    /\ now < MaxClock
    /\ now' = now + 1
    /\ lastOp' = Op("advance_clock", None, EmptyBag)
    /\ UNCHANGED <<members, oracleUp, memberChanges, instVars, supplyVars, ruiVars, heavVars, histVars>>

\* A host leaves or joins the service group; the oracle fails or recovers.
MemberLeave(h) ==
    /\ memberChanges < MaxMemberChanges
    /\ h \in members
    /\ members' = members \ {h}
    /\ memberChanges' = memberChanges + 1
    /\ lastOp' = Op("member_leave", h, EmptyBag)
    /\ UNCHANGED <<now, oracleUp, instVars, supplyVars, ruiVars, heavVars, histVars>>

MemberJoin(h) ==
    /\ h \notin members
    /\ members' = members \cup {h}
    /\ lastOp' = Op("member_join", h, EmptyBag)
    /\ UNCHANGED <<now, oracleUp, memberChanges, instVars, supplyVars, ruiVars, heavVars, histVars>>

OracleFail ==
    /\ memberChanges < MaxMemberChanges
    /\ oracleUp
    /\ oracleUp' = FALSE
    /\ memberChanges' = memberChanges + 1
    /\ lastOp' = Op("oracle_fail", None, EmptyBag)
    /\ UNCHANGED <<now, members, instVars, supplyVars, ruiVars, heavVars, histVars>>

OracleRecover ==
    /\ ~oracleUp
    /\ oracleUp' = TRUE
    /\ lastOp' = Op("oracle_recover", None, EmptyBag)
    /\ UNCHANGED <<now, members, memberChanges, instVars, supplyVars, ruiVars, heavVars, histVars>>

\* The allocator of host h reports a user count, or none.
AllocatorReports(h, reported) ==
    /\ allocUserCount[h] # reported
    /\ allocUserCount' = [allocUserCount EXCEPT ![h] = reported]
    /\ lastOp' = Op("allocator_reports", h, EmptyBag)
    /\ UNCHANGED <<envVars, instances, domains, resourceDecayFactor, supplyVars, ruiVars, heavVars, histVars>>

\* The allocator of host h, while it reallocates, reports the priorities it
\* has applied to an instance of the host to the statistics.
AllocatorPrioritizes(h, instance_name, prioritization) ==
    /\ reallocations[h] > 0
    /\ helpers[h].rui_stats.enabled
    /\ instance_name \in DOMAIN instances[h]
    /\ helpers' = [helpers EXCEPT ![h].rui_stats =
                       AddPrioritization(@, instance_name, prioritization, now)]
    /\ lastOp' = [Op("add_prioritization", h, EmptyBag) EXCEPT
                     !.args = Some([instance_name |-> instance_name,
                                    prioritization |-> prioritization])]
    /\ UNCHANGED <<envVars, instVars, supplyVars, lastCollectionTime,
                   timeSinceLastCollection, fairnessQuota, globalNorm, activeMetric,
                   heavVars, histVars>>

\* The instance n of host h is stopped: nova records it and libvirt no
\* longer reports its domain as active.
StopInstance(h, n) ==
    /\ n \in DOMAIN instances[h]
    /\ instances[h][n].vm_state = "active"
    /\ instances' = [instances EXCEPT ![h][n].vm_state = "stopped"]
    /\ domains' = [domains EXCEPT ![n].active = FALSE]
    /\ lastOp' = Op("stop_instance", h, EmptyBag)
    /\ UNCHANGED <<envVars, allocUserCount, resourceDecayFactor, supplyVars, ruiVars, heavVars, histVars>>

\* The instance n of host h is started.
StartInstance(h, n) ==
    /\ n \in DOMAIN instances[h]
    /\ instances[h][n].vm_state = "stopped"
    /\ instances' = [instances EXCEPT ![h][n].vm_state = "active"]
    /\ domains' = [domains EXCEPT ![n].active = TRUE]
    /\ lastOp' = Op("start_instance", h, EmptyBag)
    /\ UNCHANGED <<envVars, allocUserCount, resourceDecayFactor, supplyVars, ruiVars, heavVars, histVars>>

\* The instance n of host h is deleted: InstanceList.get_by_host no longer
\* returns it.
DeleteInstance(h, n) ==
    /\ n \in DOMAIN instances[h]
    /\ instances' = [instances EXCEPT ![h] = DictDel(@, n)]
    /\ lastOp' = Op("delete_instance", h, EmptyBag)
    /\ UNCHANGED <<envVars, domains, allocUserCount, resourceDecayFactor, supplyVars, ruiVars, heavVars, histVars>>

(***************************************************************************)
(* The instances of the hosts and the readings libvirt may return.         *)
(***************************************************************************)
Instance(name, host, user_id, vcpus, vm_state) ==
    [name |-> name, host |-> host, user_id |-> user_id, vcpus |-> vcpus, vm_state |-> vm_state]

Reading(cpu_ns, rd_bytes, wr_bytes, rx_bytes, tx_bytes, unused) ==
    [cputime |-> [error |-> FALSE, times |-> <<[error |-> FALSE, ns |-> cpu_ns]>>],
     volumes |-> <<[error |-> FALSE, rd_bytes |-> rd_bytes, wr_bytes |-> wr_bytes]>>,
     ifaces |-> <<[error |-> FALSE, rx_bytes |-> rx_bytes, tx_bytes |-> tx_bytes]>>,
     memory |-> [error |-> FALSE, stats |-> [k \in {"unused"} |-> unused]]]

Readings ==
    {Reading(1000000000, 1, 0, 0, 1, 1), Reading(2000000000, 1, 1, 1, 1, 0)}

\* The state FairnessManager.__init__ leaves on every host at time t, with
\* the hosts group in the service group, the instances insts, their domains
\* doms and the decay factor configured as decay: every variable but the
\* trace of the handlers; stats_enabled is CONF.fairness.rui_stats_enabled.
InitConfigured(t, group, insts, doms, decay, stats_enabled) ==
    /\ now = t
    /\ members = group
    /\ oracleUp = TRUE
    /\ memberChanges = 0
    /\ instances = insts
    /\ domains = doms
    /\ allocUserCount = [h \in Hosts |-> PyNone]
    /\ resourceDecayFactor = decay
    /\ localSupply = [h \in Hosts |-> CalculateLocalHostSupply(h, t)]
    /\ remoteSupplies = [h \in Hosts |-> InitRemoteSupplies(h, t)]
    /\ ready = [h \in Hosts |-> CheckReadiness(InitRemoteSupplies(h, t))]
    /\ supplyCasts = EmptyBag
    /\ lastCollectionTime = [h \in Hosts |-> PyNone]
    /\ timeSinceLastCollection = [h \in Hosts |-> PyNone]
    /\ helpers = [h \in Hosts |-> InitHelperWith(stats_enabled)]
    /\ fairnessQuota = [h \in Hosts |-> ZeroResourceInformation]
    /\ globalNorm = [h \in Hosts |-> ZeroResourceInformation]
    /\ activeMetric = [h \in Hosts |-> active_metric]
    /\ fairnessHeavinesses = [h \in Hosts |-> EmptyDict]
    /\ heavCasts = EmptyBag
    /\ reallocations = [h \in Hosts |-> 0]
    /\ triggers = [h \in Hosts |-> 0]
    /\ lastStored = [a \in Hosts |-> [h \in Hosts |-> IF h = a THEN t ELSE 0]]
    /\ maxReceived = [a \in Hosts |-> [h \in Hosts |-> IF h = a THEN t ELSE 0]]
    /\ castLost = FALSE

\* The same under the default of rui_stats_enabled.
InitAtBut(t, group, insts, doms, decay) ==
    InitConfigured(t, group, insts, doms, decay, rui_stats_enabled)

\* The same, and no handler has run yet.
InitAt(t, group, insts, doms, decay) ==
    /\ InitAtBut(t, group, insts, doms, decay)
    /\ lastOp = Op("init", None, EmptyBag)

\* The same at time 1, with every host in the service group and the default
\* decay factor.
InitWith(insts, doms) == InitAt(1, Hosts, insts, doms, resource_decay_factor)

\* Every host runs one instance.
Init ==
    InitWith([h \in Hosts |-> [n \in {"vm" \o h} |-> Instance(n, h, "user" \o h, 1, "active")]],
             [n \in {"vm" \o h : h \in Hosts} |-> [active |-> TRUE, max_memory |-> 2]])

Next ==
    \/ \E self \in Hosts : CompleteCloudSupply(self)
    \/ \E self \in Hosts : \E m \in BagToSet(supplyCasts) : ReceiveHostSupply(self, m)
    \/ \E m \in BagToSet(supplyCasts) : DropSupplyCast(m)
    \/ \E self \in Hosts : \E readings \in [SampledInstances(self) -> Readings] : CollectRui(self, readings)
    \/ \E self \in Hosts : \E m \in BagToSet(heavCasts) : ReceiveHeavinesses(self, m)
    \/ \E m \in BagToSet(heavCasts) : DropHeavinessCast(m)
    \/ \E self \in Hosts : FinishReallocation(self)
    \/ \E self \in Hosts : ResumeTrigger(self)
    \/ \E self \in Hosts : Restart(self)
    \/ AdvanceClock
    \/ \E h \in Hosts : MemberLeave(h)
    \/ \E h \in Hosts : MemberJoin(h)
    \/ OracleFail
    \/ OracleRecover

Spec == Init /\ [][Next]_vars

(***************************************************************************)
(* The supply layer on its own: hosts that run no instance, so that the    *)
(* RUI task purges the registry and computes the quota but has nothing to  *)
(* sample and no heaviness to exchange.                                    *)
(***************************************************************************)
InitIdle ==
    InitWith([h \in Hosts |-> EmptyDict], EmptyDict)

SupplyNext ==
    \/ \E self \in Hosts : CompleteCloudSupply(self)
    \/ \E self \in Hosts : \E m \in BagToSet(supplyCasts) : ReceiveHostSupply(self, m)
    \/ \E m \in BagToSet(supplyCasts) : DropSupplyCast(m)
    \/ \E self \in Hosts : \E readings \in [SampledInstances(self) -> Readings] : CollectRui(self, readings)
    \/ \E self \in Hosts : Restart(self)
    \/ AdvanceClock
    \/ \E h \in Hosts : MemberLeave(h)
    \/ \E h \in Hosts : MemberJoin(h)
    \/ OracleFail
    \/ OracleRecover

SupplySpec == InitIdle /\ [][SupplyNext]_vars

(***************************************************************************)
(* The supply gossip under fair scheduling: the service group keeps its    *)
(* members, the oracle stays available and no manager is restarted; casts  *)
(* may be lost.  The periodic tasks keep firing (weak fairness of the poll)*)
(* and a host to which casts are sent again and again eventually handles   *)
(* one (strong fairness of the delivery).                                  *)
(***************************************************************************)
LiveNext ==
    \/ \E self \in Hosts : CompleteCloudSupply(self)
    \/ \E self \in Hosts : \E m \in BagToSet(supplyCasts) : ReceiveHostSupply(self, m)
    \/ \E m \in BagToSet(supplyCasts) : DropSupplyCast(m)
    \/ \E self \in Hosts : \E readings \in [SampledInstances(self) -> Readings] : CollectRui(self, readings)
    \/ AdvanceClock

LiveSpec ==
    /\ InitIdle
    /\ [][LiveNext]_vars
    /\ \A self \in Hosts : WF_vars(CompleteCloudSupply(self))
    /\ \A self \in Hosts : SF_vars(\E m \in BagToSet(supplyCasts) : ReceiveHostSupply(self, m))

(***************************************************************************)
(* The heaviness exchange: every host runs one instance, the service group *)
(* keeps its members and no manager is restarted.                          *)
(***************************************************************************)
RuiNext ==
    \/ \E self \in Hosts : CompleteCloudSupply(self)
    \/ \E self \in Hosts : \E m \in BagToSet(supplyCasts) : ReceiveHostSupply(self, m)
    \/ \E self \in Hosts : \E readings \in [SampledInstances(self) -> Readings] : CollectRui(self, readings)
    \/ \E self \in Hosts : \E m \in BagToSet(heavCasts) : ReceiveHeavinesses(self, m)
    \/ \E m \in BagToSet(heavCasts) : DropHeavinessCast(m)
    \/ \E self \in Hosts : FinishReallocation(self)
    \/ AdvanceClock
    \/ OracleFail
    \/ OracleRecover

RuiSpec == Init /\ [][RuiNext]_vars

(***************************************************************************)
(* The heaviness exchange while a host may leave the service group: every  *)
(* host runs one instance whose counters read the same at every tick,      *)
(* heaviness casts may be lost, and a reallocation takes time.             *)
(***************************************************************************)
SteadyReadings == {Reading(1000000000, 1, 0, 0, 1, 1)}

ExchangeNext ==
    \/ \E self \in Hosts : CompleteCloudSupply(self)
    \/ \E self \in Hosts : \E m \in BagToSet(supplyCasts) : ReceiveHostSupply(self, m)
    \/ \E self \in Hosts : \E readings \in [SampledInstances(self) -> SteadyReadings] : CollectRui(self, readings)
    \/ \E self \in Hosts : \E m \in BagToSet(heavCasts) : ReceiveHeavinesses(self, m)
    \/ \E m \in BagToSet(heavCasts) : DropHeavinessCast(m)
    \/ \E self \in Hosts : FinishReallocation(self)
    \/ \E self \in Hosts : ResumeTrigger(self)
    \/ AdvanceClock
    \/ \E h \in Hosts : MemberLeave(h)

ExchangeSpec == Init /\ [][ExchangeNext]_vars

(***************************************************************************)
(* The RUI collection of one host: B is the only member of the service     *)
(* group (A has not joined), so its registry is complete from the start    *)
(* and the cloud supply is its own, with a disk speed of 0.  It runs two   *)
(* instances of two users, the second one stopped at first; instances are  *)
(* stopped, started and deleted between the ticks.  The manager starts in  *)
(* the second the host booted, and the decay factor is configured as 0,    *)
(* 1/2 or 1.                                                               *)
(***************************************************************************)
DecayFactors == {PyFloat(0, 1), PyFloat(1, 2), PyFloat(1, 1)}

InitCollector ==
    \E decay \in DecayFactors :
        InitAt(0, {"B"},
               [h \in Hosts |->
                   IF h = "B"
                   THEN [n \in {"vmB", "vmB2"} |->
                            IF n = "vmB" THEN Instance(n, h, "userB", 1, "active")
                            ELSE Instance(n, h, "userB2", 1, "stopped")]
                   ELSE EmptyDict],
               [n \in {"vmB", "vmB2"} |-> [active |-> n = "vmB", max_memory |-> 2]],
               decay)

CollectorNext ==
    \/ \E self \in Hosts : \E readings \in [SampledInstances(self) -> Readings] : CollectRui(self, readings)
    \/ \E self \in Hosts : FinishReallocation(self)
    \/ \E self \in Hosts : ResumeTrigger(self)
    \/ AdvanceClock
    \/ \E h \in Hosts : \E n \in DOMAIN instances[h] : StopInstance(h, n)
    \/ \E h \in Hosts : \E n \in DOMAIN instances[h] : StartInstance(h, n)
    \/ \E h \in Hosts : \E n \in DOMAIN instances[h] : DeleteInstance(h, n)

CollectorSpec == InitCollector /\ [][CollectorNext]_vars

(***************************************************************************)
(* The RUI task of one host and what it depends on: B is the only member   *)
(* of the service group and runs two instances of two users, the second    *)
(* one stopped; the counters are steady.  Instances are deleted, the       *)
(* allocator reports a user count or none, and the servicegroup API fails  *)
(* and recovers between the ticks and the supply polls.                    *)
(***************************************************************************)
ReportedUserCounts == {PyNone, Some(0), Some(3)}

InitTick ==
    InitAt(0, {"B"},
           [h \in Hosts |->
               IF h = "B"
               THEN [n \in {"vmB", "vmB2"} |->
                        IF n = "vmB" THEN Instance(n, h, "userB", 1, "active")
                        ELSE Instance(n, h, "userB2", 1, "stopped")]
               ELSE EmptyDict],
           [n \in {"vmB", "vmB2"} |-> [active |-> n = "vmB", max_memory |-> 2]],
           resource_decay_factor)

TickNext ==
    \/ \E readings \in [SampledInstances("B") -> SteadyReadings] : CollectRui("B", readings)
    \/ CompleteCloudSupply("B")
    \/ FinishReallocation("B")
    \/ ResumeTrigger("B")
    \/ AdvanceClock
    \/ \E n \in DOMAIN instances["B"] : DeleteInstance("B", n)
    \/ \E reported \in ReportedUserCounts : AllocatorReports("B", reported)
    \/ OracleFail
    \/ OracleRecover

TickSpec == InitTick /\ [][TickNext]_vars

(***************************************************************************)
(* The arithmetic of ResourceInformation on its own: a caller holds two    *)
(* vectors with integer fields and a number and applies one operation.     *)
(***************************************************************************)
VectorOf(cpu, io, memory, compute_host, user_id, instance_name) ==
    ResourceInformation(PyInt(cpu), PyInt(io), PyInt(io), PyInt(io), PyInt(io),
                        PyInt(memory), compute_host, user_id, instance_name)

LeftVectors ==
    {VectorOf(cpu, io, memory, "A", "userA", "vmA") :
        cpu \in {0, 6, 7}, io \in {0, 4}, memory \in {0, 2}}

RightVectors ==
    {VectorOf(cpu, io, memory, "B", None, None) :
        cpu \in {0, 2, 3}, io \in {0, 2}, memory \in {0, 1}}

Numbers == {PyInt(0), PyInt(2), PyFloat(0, 1), PyFloat(1, 2)}

InitVector ==
    /\ InitAtBut(1, Hosts, [h \in Hosts |-> EmptyDict], EmptyDict, resource_decay_factor)
    /\ \E self \in LeftVectors, other \in RightVectors, number \in Numbers :
           lastOp = [Op("caller", None, EmptyBag) EXCEPT
                         !.args = Some([self |-> self, other |-> other, number |-> number])]

\* What an operation leaves in place of its caller: its result, or that it
\* raised.
Returns(name, result) ==
    /\ lastOp.op = "caller"
    /\ lastOp' = [lastOp EXCEPT !.op = name, !.result = Some(result)]
    /\ UNCHANGED <<envVars, instVars, supplyVars, ruiVars, heavVars, histVars>>

Raises(name) ==
    /\ lastOp.op = "caller"
    /\ lastOp' = [lastOp EXCEPT !.op = name, !.raised = TRUE]
    /\ UNCHANGED <<envVars, instVars, supplyVars, ruiVars, heavVars, histVars>>

\* self + other
VectorAdd ==
    Returns("add", AddResource(Val(lastOp.args).self, Val(lastOp.args).other))

\* The difference add_instance_demand forms, of self + other and other.
VectorAddThenDifference ==
    Returns("add_difference",
            NewIntervalDemand(AddResource(Val(lastOp.args).self, Val(lastOp.args).other),
                              Val(lastOp.args).other))

\* self / number
VectorDivNumber ==
    IF DivNumberRaises(Val(lastOp.args).self, Val(lastOp.args).number)
    THEN Raises("div_number")
    ELSE Returns("div_number", DivNumber(Val(lastOp.args).self, Val(lastOp.args).number))

\* self / other
VectorDivResource ==
    IF DivResourceRaises(Val(lastOp.args).self, Val(lastOp.args).other)
    THEN Raises("div_resource")
    ELSE Returns("div_resource", DivResource(Val(lastOp.args).self, Val(lastOp.args).other))

VectorNext ==
    \/ VectorAdd
    \/ VectorAddThenDifference
    \/ VectorDivNumber
    \/ VectorDivResource

VectorSpec == InitVector /\ [][VectorNext]_vars

(***************************************************************************)
(* The heaviness queues under a burst: the managers start at time 0, so   *)
(* that a host may map twice while a peer has yet to map or is still       *)
(* reallocating; no cast is lost and the service group keeps its members.  *)
(***************************************************************************)
InitQueue ==
    InitAt(0, Hosts,
           [h \in Hosts |-> [n \in {"vm" \o h} |-> Instance(n, h, "user" \o h, 1, "active")]],
           [n \in {"vm" \o h : h \in Hosts} |-> [active |-> TRUE, max_memory |-> 2]],
           resource_decay_factor)

QueueNext ==
    \/ \E self \in Hosts : CompleteCloudSupply(self)
    \/ \E self \in Hosts : \E m \in BagToSet(supplyCasts) : ReceiveHostSupply(self, m)
    \/ \E self \in Hosts : \E readings \in [SampledInstances(self) -> SteadyReadings] : CollectRui(self, readings)
    \/ \E self \in Hosts : \E m \in BagToSet(heavCasts) : ReceiveHeavinesses(self, m)
    \/ \E self \in Hosts : FinishReallocation(self)
    \/ \E self \in Hosts : ResumeTrigger(self)
    \/ AdvanceClock

QueueSpec == InitQueue /\ [][QueueNext]_vars

(***************************************************************************)
(* The heaviness exchange while a host may leave the service group or the  *)
(* servicegroup API may fail and recover.                                  *)
(***************************************************************************)
PurgeNext ==
    \/ ExchangeNext
    \/ OracleFail
    \/ OracleRecover

PurgeSpec == Init /\ [][PurgeNext]_vars

(***************************************************************************)
(* The statistics export: rui_stats_enabled is set, B is the only member   *)
(* of the service group and runs one instance whose counters are steady;   *)
(* the allocator reports priorities while a reallocation runs.             *)
(***************************************************************************)
Prioritization(heaviness, cpu_shares) ==
    [heaviness |-> heaviness, cpu_shares |-> cpu_shares, memory_soft_limit |-> 2,
     disk_weight |-> 500, net_priority |-> 1]

Prioritizations == {Prioritization(PyFloat(0, 1), 1024), Prioritization(PyFloat(1, 2), 512)}

InitStats ==
    /\ InitConfigured(0, {"B"},
                      [h \in Hosts |->
                          IF h = "B"
                          THEN [n \in {"vmB"} |-> Instance(n, h, "userB", 1, "active")]
                          ELSE EmptyDict],
                      [n \in {"vmB"} |-> [active |-> TRUE, max_memory |-> 2]],
                      resource_decay_factor, TRUE)
    /\ lastOp = Op("init", None, EmptyBag)

StatsNext ==
    \/ \E readings \in [SampledInstances("B") -> SteadyReadings] : CollectRui("B", readings)
    \/ \E n \in DOMAIN instances["B"] : \E prioritization \in Prioritizations :
           AllocatorPrioritizes("B", n, prioritization)
    \/ FinishReallocation("B")
    \/ ResumeTrigger("B")
    \/ AdvanceClock

StatsSpec == InitStats /\ [][StatsNext]_vars

(***************************************************************************)
(* The endowments of one tick: A is the only member of the service group   *)
(* and runs two instances, each of them in the vm_state active, stopped or *)
(* rescued, with a domain that is active or not, and with one or two       *)
(* vcpus; the counters are steady.                                         *)
(***************************************************************************)
VmStates == {"active", "stopped", "rescued"}

InitEndowment ==
    \E states \in [{"vmA", "vmA2"} -> VmStates] :
        \E activity \in [{"vmA", "vmA2"} -> BOOLEAN] :
            \E vcpus \in [{"vmA", "vmA2"} -> {1, 2}] :
                InitAt(0, {"A"},
                       [h \in Hosts |->
                           IF h = "A"
                           THEN [n \in {"vmA", "vmA2"} |->
                                    Instance(n, h, "user_" \o n, vcpus[n], states[n])]
                           ELSE EmptyDict],
                       [n \in {"vmA", "vmA2"} |-> [active |-> activity[n], max_memory |-> 2]],
                       resource_decay_factor)

EndowmentNext ==
    \/ \E readings \in [SampledInstances("A") -> SteadyReadings] : CollectRui("A", readings)
    \/ FinishReallocation("A")
    \/ ResumeTrigger("A")
    \/ AdvanceClock

EndowmentSpec == InitEndowment /\ [][EndowmentNext]_vars

(***************************************************************************)
(* The admin API at work: every host runs one instance with steady         *)
(* counters, and an admin sets the metric of a host to the name of a       *)
(* metric, of another object of a metrics module, of a private object or   *)
(* to a name that is nowhere.                                              *)
(***************************************************************************)
MetricNames == {"GreedinessMetric", "np", "__doc__", "FairShare"}

AdminNext ==
    \/ \E self \in Hosts : \E metric_name \in MetricNames : SetMetric(self, metric_name)
    \/ \E self \in Hosts : CompleteCloudSupply(self)
    \/ \E self \in Hosts : \E m \in BagToSet(supplyCasts) : ReceiveHostSupply(self, m)
    \/ \E self \in Hosts : \E readings \in [SampledInstances(self) -> SteadyReadings] : CollectRui(self, readings)
    \/ \E m \in BagToSet(heavCasts) : DropHeavinessCast(m)
    \/ AdvanceClock

AdminSpec == Init /\ [][AdminNext]_vars

(***************************************************************************)
(* GreedinessMetric.map called on its own: one or two instances of host A, *)
(* a cloud supply that is 0 in some resources or in none, and demands and  *)
(* endowments as the manager computes them from integer counters.  The     *)
(* disk and network resources share one value.  The dict of demands is     *)
(* visited in either order.                                                *)
(***************************************************************************)
MetricVector(cpu, io, memory, user_id, instance_name) ==
    ResourceInformation(PyInt(cpu), PyInt(io), PyInt(io), PyInt(io), PyInt(io),
                        PyInt(memory), "A", user_id, instance_name)

MetricSupplies ==
    {MetricVector(100, 0, 0, None, None), MetricVector(100, 10, 4, None, None)}

MetricDemands(name) ==
    {MetricVector(cpu, io, memory, "user_" \o name, name) :
        cpu \in {10, 40, 60, 90}, io \in {0, 5}, memory \in {0, 2}}

MetricEndowments(name) ==
    {MetricVector(50, 0, 0, "user_" \o name, name), MetricVector(50, 5, 2, "user_" \o name, name)}

MetricOrders == {<<"vm1">>, <<"vm1", "vm2">>, <<"vm2", "vm1">>}

MetricUserCounts == {1, 2}

\* The names a sequence of names holds.
Range(order) == {order[c] : c \in 1..Len(order)}

\* The arguments of a call of Metric.map: the order in which the demands
\* are visited, the supply, the dict of demands, the dict of endowments and
\* the number of users.
MetricInputs ==
    {[order |-> order, supply |-> supply,
      demands |-> [n \in Range(order) |-> Some(demands[n])],
      endowments |-> endowments, user_count |-> user_count] :
        order \in MetricOrders, supply \in MetricSupplies,
        demands \in {d \in [{"vm1", "vm2"} -> UNION {MetricDemands(n) : n \in {"vm1", "vm2"}}] :
                        \A n \in {"vm1", "vm2"} : d[n].instance_name = n},
        endowments \in {e \in [{"vm1", "vm2"} -> UNION {MetricEndowments(n) : n \in {"vm1", "vm2"}}] :
                           \A n \in {"vm1", "vm2"} : e[n].instance_name = n},
        user_count \in MetricUserCounts}

\* No manager runs; a caller holds the arguments of a call of Metric.map.
InitMetric ==
    /\ InitAtBut(1, Hosts, [h \in Hosts |-> EmptyDict], EmptyDict, resource_decay_factor)
    /\ \E args \in MetricInputs :
           lastOp = [Op("caller", None, EmptyBag) EXCEPT !.map_args = Some(args)]

\* metric_class().map(supply, demands, endowments, user_count), with the
\* demands visited in the given order.
MetricMap(order, supply, demands, endowments, user_count) ==
    /\ lastOp' = [Op("map", None, EmptyBag) EXCEPT
                     !.map_args = lastOp.map_args,
                     !.map_raised = MapRaises(supply, demands, endowments),
                     !.map_result =
                         IF MapRaises(supply, demands, endowments) THEN PyNone
                         ELSE Some(GreedinessMapIn(order, supply, demands, endowments,
                                                   user_count))]
    /\ UNCHANGED <<envVars, instVars, supplyVars, ruiVars, heavVars, histVars>>

MetricNext ==
    /\ lastOp.op = "caller"
    /\ MetricMap(Val(lastOp.map_args).order, Val(lastOp.map_args).supply,
                 Val(lastOp.map_args).demands,
                 [n \in DOMAIN Val(lastOp.map_args).demands |->
                     Val(lastOp.map_args).endowments[n]],
                 Val(lastOp.map_args).user_count)

MetricSpec == InitMetric /\ [][MetricNext]_vars

(***************************************************************************)
(* The properties checked.                                                 *)
(***************************************************************************)
\* The timestamp the registry of manager a holds for host h.
StoredAt(a, h) == remoteSupplies[a][h].supply_created_at

\* C1: reallocate() is triggered only when, after the enqueue, every live
\* member has at least one heaviness queued (a member that never reported
\* included).
C1_ReallocateOnlyWhenAllLiveQueued ==
    lastOp.reallocated => LiveMembers \subseteq lastOp.queued

\* C2 as claimed: in every state, ready is true if and only if every live
\* member has an entry in the registry.
C2_ReadyIffAllLivePresent ==
    \A a \in Hosts :
        ready[a] <=> (oracleUp /\ \A h \in members : h \in DOMAIN remoteSupplies[a])

\* The handlers that end with CloudSupply.check_readiness: the constructor,
\* the supply poll and receive_host_supply (through add_supply).
ChecksReadiness(op) == op \in {"restart", "complete_cloud_supply", "receive_host_supply"}

\* C2 as amended: right after a readiness check of a manager, its ready flag
\* is true if and only if the oracle is available and every live member has
\* an entry in its registry.
C2_ReadyIffAllLivePresentWhenChecked ==
    ChecksReadiness(lastOp.op) =>
        (ready[lastOp.host] <=>
            (oracleUp /\ \A h \in members : h \in DOMAIN remoteSupplies[lastOp.host]))

\* C2 witness: a supply was added, the check that followed found every live
\* member present and set ready.
C2_ReadySetByCheck ==
    /\ lastOp.op = "receive_host_supply"
    /\ IsNone(lastOp.previous)
    /\ ready[lastOp.host]
    /\ members = Hosts

\* C3: an add for a host that has an entry replaces it only if the supply is
\* newer and leaves the registry as it is otherwise; so the entry held is the
\* one with the greatest timestamp received since the entry exists.
C3_AddReplacesOnlyIfNewer ==
    /\ [](\A a \in Hosts : \A h \in DOMAIN remoteSupplies[a] :
             StoredAt(a, h) = maxReceived[a][h])
    /\ [][(lastOp'.op = "receive_host_supply" /\ ~IsNone(lastOp'.previous)) =>
             LET a == lastOp'.host
                 supply == Val(lastOp'.added)
                 h == supply.compute_host
             IN  IF supply.supply_created_at > Val(lastOp'.previous)
                 THEN remoteSupplies'[a] =
                          [remoteSupplies[a] EXCEPT ![h] = CoerceBootTime(supply)]
                 ELSE remoteSupplies'[a] = remoteSupplies[a]]_vars

\* C3 witness: a supply older than the stored one arrived and the stored one
\* was kept.
C3_OlderSupplyDropped ==
    /\ lastOp.op = "receive_host_supply"
    /\ ~IsNone(lastOp.previous)
    /\ Val(lastOp.added).supply_created_at < Val(lastOp.previous)
    /\ StoredAt(lastOp.host, Val(lastOp.added).compute_host) = Val(lastOp.previous)

\* C4 as claimed: over adds, purges and later re-adds, the timestamp stored
\* for a host is never below the one stored for it last.
C4_StoredTimestampNeverDecreases ==
    [][\A a \in Hosts : \A h \in DOMAIN remoteSupplies'[a] :
          remoteSupplies'[a][h].supply_created_at >= lastStored[a][h]]_vars

\* C4 as amended: while the entry of a host stays in the registry, its
\* timestamp never decreases from one state to the next.
C4_TimestampNeverDecreasesWhileHeld ==
    [][\A a \in Hosts : \A h \in (DOMAIN remoteSupplies[a]) \cap (DOMAIN remoteSupplies'[a]) :
          remoteSupplies'[a][h].supply_created_at >= StoredAt(a, h)]_vars

\* C4 witness: the entry of a host was replaced by a newer supply.
C4_EntryReplacedByNewer ==
    /\ lastOp.op = "receive_host_supply"
    /\ ~IsNone(lastOp.previous)
    /\ StoredAt(lastOp.host, Val(lastOp.added).compute_host) > Val(lastOp.previous)

\* C5 as claimed: after a registry mutation (an add) the keys of the registry
\* are live members.
C5_KeysAreLiveMembersAfterAdd ==
    lastOp.op = "receive_host_supply" =>
        DOMAIN remoteSupplies[lastOp.host] \subseteq members

\* C5 as amended: the registry is purged only where the RUI task reads the
\* cloud supply, with the oracle available, and the manager's own entry is
\* kept; an add only adds its host and a poll leaves the registry alone.
C5_PurgedOnlyByCloudSupplyRead ==
    [][LET a == lastOp'.host
       IN  /\ (lastOp'.op = "collect_rui" /\ ~lastOp'.skipped) =>
                 DOMAIN remoteSupplies'[a] =
                     IF oracleUp
                     THEN {h \in DOMAIN remoteSupplies[a] : h \in members \/ h = a}
                     ELSE DOMAIN remoteSupplies[a]
           /\ lastOp'.op = "receive_host_supply" =>
                 DOMAIN remoteSupplies'[a] =
                     (DOMAIN remoteSupplies[a]) \cup {Val(lastOp'.added).compute_host}
           /\ lastOp'.op = "complete_cloud_supply" =>
                 remoteSupplies'[a] = remoteSupplies[a]]_vars

\* C5 witness: the RUI task has purged the entry of a host that left.
C5_EntryPurged ==
    /\ lastOp.op = "collect_rui"
    /\ ~lastOp.skipped
    /\ \E h \in Hosts : /\ h \notin DOMAIN remoteSupplies[lastOp.host]
                        /\ lastStored[lastOp.host][h] > 0

\* C6: with a fixed service group, fair supply polls and casts that are not
\* lost forever, every manager eventually is ready and stays ready.
C6_EventuallyReadyForever == \A h \in Hosts : <>[](ready[h])

\* C6 witness: a supply cast was lost and still every manager is ready.
C6_ReadyAfterLoss == castLost /\ \A h \in Hosts : ready[h]

\* C7 as claimed: every receive_host_supply adds the supply and then casts
\* exactly one receive_host_supply with the receiver's local supply back to
\* the host the supply came from.
C7_EchoForEverySupply ==
    lastOp.op = "receive_host_supply" =>
        /\ Val(lastOp.added).compute_host \in DOMAIN remoteSupplies[lastOp.host]
        /\ BagCardinality(lastOp.casts) = 1
        /\ \A c \in BagToSet(lastOp.casts) :
              /\ c.to = Val(lastOp.added).compute_host
              /\ c.json_supply = ToJson(localSupply[lastOp.host])

\* C7 as amended: receive_host_supply adds the supply and then casts exactly
\* one receive_host_supply with its local supply to the remote address of the
\* cast handled, provided the cast carries one (an answer carries none), the
\* oracle is available and the address is a live member other than the
\* receiver; otherwise it casts nothing.
C7_EchoOnlyToOnlinePoller ==
    lastOp.op = "receive_host_supply" =>
        /\ Val(lastOp.added).compute_host \in DOMAIN remoteSupplies[lastOp.host]
        /\ lastOp.casts =
              IF /\ lastOp.remote_address # None
                 /\ lastOp.remote_address # lastOp.host
                 /\ lastOp.remote_address \in LiveMembers
              THEN BagOf({SupplyCast(lastOp.remote_address, None,
                                     ToJson(localSupply[lastOp.host]))})
              ELSE EmptyBag

\* C7 witness: a poll cast was handled and answered with one cast.
C7_PollAnswered ==
    /\ lastOp.op = "receive_host_supply"
    /\ lastOp.remote_address # None
    /\ BagCardinality(lastOp.casts) = 1

\* C8: a supply poll recomputes ready and casts the local supply exactly once
\* to every live member without an entry in the registry, and to no other
\* host.
C8_PollCastsToMissingHosts ==
    lastOp.op = "complete_cloud_supply" =>
        LET a == lastOp.host
            missing == {h \in LiveMembers : h \notin DOMAIN remoteSupplies[a]}
        IN  /\ ready[a] <=> (oracleUp /\ missing = {})
            /\ lastOp.casts =
                  BagOf({SupplyCast(h, a, ToJson(localSupply[a])) : h \in missing})

\* C8 witness: a poll found a host missing, stayed not ready and cast to it.
C8_PollFoundMissingHost ==
    /\ lastOp.op = "complete_cloud_supply"
    /\ ~ready[lastOp.host]
    /\ BagCardinality(lastOp.casts) = 1

\* C9: an RUI tick that fires while ready is false changes neither the
\* collection time, the interval, the demands and endowments kept, the quota
\* nor the global norm, calls no Metric.map and neither casts nor queues a
\* heaviness dict.
C9_TickSkippedWhileNotReady ==
    [][(lastOp'.op = "collect_rui" /\ ~ready[lastOp'.host]) =>
          /\ UNCHANGED <<lastCollectionTime, timeSinceLastCollection, helpers,
                         fairnessQuota, globalNorm>>
          /\ UNCHANGED <<fairnessHeavinesses, heavCasts, reallocations, triggers>>
          /\ IsNone(lastOp'.map_result)
          /\ ~lastOp'.map_raised
          /\ IsNone(lastOp'.self_delivered)
          /\ lastOp'.heav_casts = EmptyBag]_vars

\* C9 witness: the tick of a host with a running instance was skipped.
C9_TickSkipped ==
    /\ lastOp.op = "collect_rui"
    /\ lastOp.skipped
    /\ \E n \in DOMAIN instances[lastOp.host] : domains[n].active

\* What _map_rui is to store and to deliver after Metric.map returned result
\* on host a: the global norm, and the result without it.
NormOf(result) ==
    ResourceInformation(result["global_norm"][1], result["global_norm"][2],
                        result["global_norm"][3], result["global_norm"][4],
                        result["global_norm"][5], result["global_norm"][6],
                        None, None, None)

RemainingOf(result) == [k \in (DOMAIN result) \ {"global_norm"} |-> result[k]]

\* C10 as claimed: after Metric.map returned, with every running instance of
\* the host in the result, the global norm is stored and the remaining dict
\* is cast once to every other live member and delivered once to the host
\* itself.
C10_MapDeliveredToAllAndSelf ==
    (lastOp.op = "collect_rui" /\ ~IsNone(lastOp.map_result)) =>
        LET a == lastOp.host
            result == Val(lastOp.map_result)
        IN  /\ \A n \in DOMAIN instances[a] : domains[n].active => n \in DOMAIN result
            /\ globalNorm[a] = NormOf(result)
            /\ lastOp.heav_casts =
                  BagOf({HeavinessCast(h, a, RemainingOf(result)) : h \in members \ {a}})
            /\ lastOp.self_delivered = Some(RemainingOf(result))

\* C10 as amended: the same while the oracle is available; while it is not,
\* the global norm is stored and the dict is neither cast nor delivered to
\* the host itself.
C10_MapDeliveredWhenOracleAvailable ==
    (lastOp.op = "collect_rui" /\ ~IsNone(lastOp.map_result)) =>
        LET a == lastOp.host
            result == Val(lastOp.map_result)
        IN  /\ \A n \in DOMAIN instances[a] : domains[n].active => n \in DOMAIN result
            /\ globalNorm[a] = NormOf(result)
            /\ IF oracleUp
               THEN /\ lastOp.heav_casts =
                          BagOf({HeavinessCast(h, a, RemainingOf(result)) :
                                    h \in members \ {a}})
                    /\ lastOp.self_delivered = Some(RemainingOf(result))
               ELSE /\ lastOp.heav_casts = EmptyBag
                    /\ IsNone(lastOp.self_delivered)

\* C10 witness: Metric.map returned and the dict was cast to the other member
\* and delivered to the host itself.
C10_MapBroadcast ==
    /\ lastOp.op = "collect_rui"
    /\ ~IsNone(lastOp.map_result)
    /\ BagCardinality(lastOp.heav_casts) = 1
    /\ ~IsNone(lastOp.self_delivered)

\* The last step delivered a heaviness dict to receive_heavinesses of
\* lastOp.host: a cast of a peer, or the delivery of _map_rui to itself.
HeavinessesReceived ==
    \/ lastOp.op = "receive_heavinesses"
    \/ lastOp.op = "collect_rui" /\ ~IsNone(lastOp.self_delivered)

\* C11: on every host at most one reallocate() runs at any time; a call made
\* while one runs starts none and waits, and a waiting call proceeds only
\* when none runs.
C11_OneReallocationAtATime ==
    /\ [](\A h \in Hosts : reallocations[h] <= 1)
    /\ [][\A h \in Hosts :
             /\ (lastOp'.host = h /\ lastOp'.reallocated /\ reallocations[h] > 0) =>
                   /\ reallocations'[h] = reallocations[h]
                   /\ triggers'[h] = triggers[h] + 1
             /\ triggers'[h] < triggers[h] => reallocations[h] = 0]_vars

\* C11 witness: a heaviness dict delivered while a reallocation runs calls
\* reallocate(), and the call waits.
C11_TriggerDuringReallocation ==
    /\ HeavinessesReceived
    /\ lastOp.reallocated
    /\ reallocations[lastOp.host] = 1
    /\ triggers[lastOp.host] > 0

\* C12: a heaviness cast that is lost changes no state of any manager, and
\* receive_heavinesses on a live host calls reallocate() whenever, after the
\* enqueue, every live member has a heaviness dict queued: the queue of a
\* host that left does not count.
C12_DepartedPeerNeverBlocks ==
    /\ [][lastOp'.op = "drop_heaviness_cast" =>
             UNCHANGED <<supplyVars, ruiVars, fairnessHeavinesses, reallocations,
                         triggers>>]_vars
    /\ [](HeavinessesReceived =>
             LET fh == fairnessHeavinesses[lastOp.host]
             IN  (lastOp.host \in LiveMembers /\ ~lastOp.reallocated) =>
                     ~(\A h \in LiveMembers : h \in DOMAIN fh /\ fh[h] # <<>>))

\* C12 witness: receive_heavinesses removed the empty queue of a host that
\* left and called reallocate().
C12_ReallocatedAfterDeparture ==
    /\ HeavinessesReceived
    /\ lastOp.reallocated
    /\ lastOp.unblocked # {}
    /\ lastOp.host \in LiveMembers

\* The instances of host a that are in its instance list and active.
ActiveInstances(a) ==
    {n \in DOMAIN instances[a] : instances[a][n].vm_state = "active" /\ domains[n].active}

\* The last step was an RUI tick that ran (the registry was ready).
TickRan == lastOp.op = "collect_rui" /\ ~lastOp.skipped

\* C13: after an RUI tick that ran, the full demands and the interval demands
\* have the same keys, and these and the keys of the endowments are instances
\* in the instance list of the host that are active at this tick.
C13_TrackedInstancesAreActive ==
    TickRan =>
        LET helper == helpers[lastOp.host]
        IN  /\ DOMAIN helper.full_demands = DOMAIN helper.interval_demands
            /\ DOMAIN helper.full_demands \subseteq ActiveInstances(lastOp.host)
            /\ DOMAIN helper.endowments \subseteq ActiveInstances(lastOp.host)

\* C14: at a tick that samples an instance v the helper holds no demand of,
\* the full demand of v becomes the sample, and the interval demand of v
\* becomes None if no tick ran before and the sample otherwise.
C14_FirstObservation ==
    [][(lastOp'.op = "collect_rui" /\ ~lastOp'.skipped) =>
          \A v \in DOMAIN lastOp'.sampled :
              v \notin DOMAIN helpers[lastOp'.host].full_demands =>
                  /\ helpers'[lastOp'.host].full_demands[v] = lastOp'.sampled[v]
                  /\ helpers'[lastOp'.host].interval_demands[v] =
                        IF IsNone(lastCollectionTime[lastOp'.host])
                        THEN PyNone
                        ELSE Some(lastOp'.sampled[v])]_vars

\* C14 witness: an instance first sampled at a later tick holds its sample as
\* interval demand.
C14_NewInstanceAfterFirstTick ==
    /\ TickRan
    /\ ~IsNone(timeSinceLastCollection[lastOp.host])
    /\ \E v \in DOMAIN lastOp.sampled :
          helpers[lastOp.host].interval_demands[v] = Some(lastOp.sampled[v])

\* The value new_value is old * (1 - a) + sample * a for the configured decay
\* factor a, where old is a number and sample an integer (in integers).
Blended(old, sample, new_value) ==
    new_value.n * old.d * resourceDecayFactor.d =
        new_value.d * (old.n * (resourceDecayFactor.d - resourceDecayFactor.n)
                       + sample * resourceDecayFactor.n * old.d)

\* The interval demand after is what add_instance_demand leaves when the
\* interval demand was old and the interval sample is sample (one integer
\* per resource): the sample itself if old is None, the blend otherwise.
StoredFromSample(old, sample, after) ==
    /\ ~IsNone(after)
    /\ \A f \in ResourceFields :
          IF IsNone(old)
          THEN Val(after)[f].n = sample[f] /\ Val(after)[f].d = 1
          ELSE Blended(Val(old)[f], sample[f], Val(after)[f])

\* C15 as claimed: at a tick that samples an instance v the helper holds a
\* full demand of, the interval sample is the sample minus the full demand
\* held in all six resources, its tags are those of the sample, and the full
\* demand becomes the sample.
C15_SampleIsDifferenceInAllSix ==
    [][(lastOp'.op = "collect_rui" /\ ~lastOp'.skipped) =>
          \A v \in DOMAIN lastOp'.sampled :
              v \in DOMAIN helpers[lastOp'.host].full_demands =>
                  LET full_now == lastOp'.sampled[v]
                      last == helpers[lastOp'.host].full_demands[v]
                      after == helpers'[lastOp'.host].interval_demands[v]
                  IN  /\ StoredFromSample(helpers[lastOp'.host].interval_demands[v],
                                          [f \in ResourceFields |-> full_now[f].n - last[f].n],
                                          after)
                      /\ \A t \in {"compute_host", "user_id", "instance_name"} :
                            Val(after)[t] = full_now[t]
                      /\ helpers'[lastOp'.host].full_demands[v] = full_now]_vars

\* The interval sample as the code forms it: the difference in the five
\* counters, and the memory used as sampled.
CounterSample(full_now, last) ==
    [f \in ResourceFields |->
        IF f = "memory_used" THEN full_now[f].n ELSE full_now[f].n - last[f].n]

\* C15 as amended: the interval sample is the sample minus the full demand
\* held in the five counters and the memory used of the sample, its tags are
\* those of the sample, and the full demand becomes the sample.
C15_SampleIsDifferenceOfCounters ==
    [][(lastOp'.op = "collect_rui" /\ ~lastOp'.skipped) =>
          \A v \in DOMAIN lastOp'.sampled :
              v \in DOMAIN helpers[lastOp'.host].full_demands =>
                  LET full_now == lastOp'.sampled[v]
                      last == helpers[lastOp'.host].full_demands[v]
                      after == helpers'[lastOp'.host].interval_demands[v]
                  IN  /\ StoredFromSample(helpers[lastOp'.host].interval_demands[v],
                                          CounterSample(full_now, last), after)
                      /\ \A t \in {"compute_host", "user_id", "instance_name"} :
                            Val(after)[t] = full_now[t]
                      /\ helpers'[lastOp'.host].full_demands[v] = full_now]_vars

\* C15 witness: an instance sampled before is sampled again, and a counter
\* and the memory used both differ from the full demand held.
C15_SampledAgain ==
    /\ TickRan
    /\ \E v \in DOMAIN lastOp.sampled :
          /\ ~IsNone(helpers[lastOp.host].interval_demands[v])
          /\ Val(helpers[lastOp.host].interval_demands[v]).memory_used.n = 2
          /\ Val(helpers[lastOp.host].interval_demands[v]).disk_bytes_written.n = 1
          /\ Val(helpers[lastOp.host].interval_demands[v]).disk_bytes_written.d = 1
          /\ lastOp.sampled[v].memory_used.n = 2

\* a <= b for two numbers.
ValueLe(a, b) == a.n * b.d <= b.n * a.d

\* C16: at a tick that samples an instance v the helper holds a full demand
\* of, an interval demand that was None becomes the interval sample; one that
\* was not becomes old * (1 - a) + sample * a for the decay factor a, so it
\* lies between old and sample in every resource, is the sample for a = 1
\* and old for a = 0.
C16_DecayedBetweenOldAndNew ==
    [][(lastOp'.op = "collect_rui" /\ ~lastOp'.skipped) =>
          \A v \in DOMAIN lastOp'.sampled :
              v \in DOMAIN helpers[lastOp'.host].full_demands =>
                  LET new == CounterSample(lastOp'.sampled[v],
                                           helpers[lastOp'.host].full_demands[v])
                      old == helpers[lastOp'.host].interval_demands[v]
                      after == helpers'[lastOp'.host].interval_demands[v]
                  IN  /\ ~IsNone(after)
                      /\ IsNone(old) =>
                            \A f \in ResourceFields : Val(after)[f] = PyInt(new[f])
                      /\ ~IsNone(old) =>
                            \A f \in ResourceFields :
                                /\ Blended(Val(old)[f], new[f], Val(after)[f])
                                /\ \/ /\ ValueLe(Val(old)[f], Val(after)[f])
                                      /\ ValueLe(Val(after)[f], PyInt(new[f]))
                                   \/ /\ ValueLe(PyInt(new[f]), Val(after)[f])
                                      /\ ValueLe(Val(after)[f], Val(old)[f])
                                /\ resourceDecayFactor = PyFloat(1, 1) =>
                                      ValueLe(Val(after)[f], PyInt(new[f]))
                                      /\ ValueLe(PyInt(new[f]), Val(after)[f])
                                /\ resourceDecayFactor = PyFloat(0, 1) =>
                                      ValueLe(Val(after)[f], Val(old)[f])
                                      /\ ValueLe(Val(old)[f], Val(after)[f])]_vars

\* C16 witness: with the decay factor 1/2, an interval demand was blended
\* with a different sample (1 byte written held, none in the sample).
C16_Blended ==
    /\ TickRan
    /\ resourceDecayFactor = PyFloat(1, 2)
    /\ \E v \in DOMAIN lastOp.sampled :
          /\ ~IsNone(helpers[lastOp.host].interval_demands[v])
          /\ Val(helpers[lastOp.host].interval_demands[v]).disk_bytes_written = PyFloat(1, 2)

\* C17: the dict get_instance_demands returns at a tick is the interval
\* demands if and only if none of them is None, and the full demands
\* otherwise; no demand handed to Metric.map is None.
C17_DemandsReturned ==
    TickRan =>
        LET helper == helpers[lastOp.host]
            complete == \A n \in DOMAIN helper.interval_demands :
                            ~IsNone(helper.interval_demands[n])
        IN  /\ (lastOp.returned = helper.interval_demands) <=> complete
            /\ ~complete =>
                  lastOp.returned =
                      [n \in DOMAIN helper.full_demands |-> Some(helper.full_demands[n])]
            /\ ~IsNone(lastOp.map_args) =>
                  /\ Val(lastOp.map_args).demands = lastOp.returned
                  /\ \A n \in DOMAIN lastOp.returned : ~IsNone(lastOp.returned[n])

\* C17 witness: Metric.map was called with the full demands, an interval
\* demand being None.
C17_FullDemandsMapped ==
    /\ TickRan
    /\ ~IsNone(lastOp.map_args)
    /\ \E n \in DOMAIN helpers[lastOp.host].interval_demands :
          IsNone(helpers[lastOp.host].interval_demands[n])

\* C18: whenever the RUI task calls Metric.map, no demand and no endowment
\* is negative, every demand has its endowment, and the endowments sum up to
\* at most the supply (within the floating error) in every resource.
C18_MapPreconditionsHold ==
    ~IsNone(lastOp.map_args) =>
        LET args == Val(lastOp.map_args)
            names == DOMAIN args.demands
        IN  /\ \A i \in names : \A k \in ResourceFields : Val(args.demands[i])[k].n >= 0
            /\ names \subseteq DOMAIN args.endowments
            /\ \A i \in names : \A k \in ResourceFields : args.endowments[i][k].n >= 0
            /\ \A k \in ResourceFields :
                  WithinFloatingError(
                      NpSum([i \in names |-> args.endowments[i][k]], names),
                      args.supply[k])

\* C19: a tick in which Metric.map raises leaves the heaviness casts and
\* queues, the global norm, the demands and endowments kept, the collection
\* time and the quota as they were.
C19_FailedTickPreservesState ==
    [][(lastOp'.op = "collect_rui" /\ lastOp'.map_raised) =>
          /\ UNCHANGED <<heavCasts, fairnessHeavinesses, globalNorm>>
          /\ UNCHANGED <<helpers, lastCollectionTime, fairnessQuota>>]_vars

\* C20: the global norm Metric.map returns is, per resource, user_count *
\* normalizer / (6 * supply) where the supply is not 0 and -1 where it is,
\* and every heaviness returned is a finite number.
C20_NormWithZeroSentinel ==
    (~IsNone(lastOp.map_args) /\ ~IsNone(lastOp.map_result)) =>
        LET args == Val(lastOp.map_args)
            result == Val(lastOp.map_result)
        IN  /\ \A j \in 1..Len(ResourceOrder) :
                  LET s == args.supply[ResourceOrder[j]]
                      norm == result["global_norm"][j]
                  IN  IF s.n # 0
                      THEN norm.n * 6 * s.n * normalizer.d =
                               norm.d * args.user_count * normalizer.n * s.d
                      ELSE norm.n = -1 /\ norm.d = 1
            /\ \A n \in DOMAIN args.demands : IsFinite(result[n].heaviness)

\* The arguments and the result of a call of Metric.map that returned.
MapReturned == lastOp.op = "map" /\ ~lastOp.map_raised

\* The greater and the smaller of two numbers.
NumMax(a, b) == IF NumLt(a, b) THEN b ELSE a

NumMin(a, b) == IF NumLt(b, a) THEN b ELSE a

\* pos[i,k] and neg[i,k] of the demands D and endowments E.
PosOf(D, E, i, k) == NumMax(NumSub(D[i][1][k], E[i][k]), PyFloat(0, 1))

NegOf(D, E, i, k) == NumMin(NumSub(D[i][1][k], E[i][k]), PyFloat(0, 1))

\* clamped[k] = max(sum_i pos[i,k] / notZero(sum_i neg[i,k]), -1)
ClampedOf(D, E, k) ==
    LET sum_pos == NpSum([i \in DOMAIN D |-> PosOf(D, E, i, k)], DOMAIN D)
        sum_neg == NpSum([i \in DOMAIN D |-> NegOf(D, E, i, k)], DOMAIN D)
        not_zero == IF NumIsZero(sum_neg) THEN PyFloat(-1, 1) ELSE sum_neg
    IN  NumMax(NpDivide(sum_pos, not_zero), PyFloat(-1, 1))

\* (pos[i,k] - discount * neg[i,k] * clamped[k]) * norm[k]
ContributionOf(D, E, norm, i, k) ==
    NumMul(NumSub(PosOf(D, E, i, k),
                  NumMul(NumMul(discount, NegOf(D, E, i, k)), ClampedOf(D, E, k))),
           norm[k])

\* C21: the heaviness Metric.map returns for an instance is the sum over the
\* resources of (pos - discount * neg * clamped) * norm, its normalized
\* endowment the sum of endowment * norm; and for the supply (100,0,0,0,0,0),
\* one user, two endowments of (50,0,0,0,0,0) and the demands (90,0,0,0,0,0)
\* and (10,0,0,0,0,0) the heavinesses are 40/600 and -40/600.
C21_HeavinessAsSpecified ==
    MapReturned =>
        LET args == Val(lastOp.map_args)
            result == Val(lastOp.map_result)
            norm == NormOf(result)
            D == args.demands
            E == args.endowments
        IN  /\ \A i \in DOMAIN D :
                  /\ result[i].heaviness =
                         NpSum([k \in ResourceFields |-> ContributionOf(D, E, norm, i, k)],
                               ResourceFields)
                  /\ result[i].normalized_endowment =
                         NpSum([k \in ResourceFields |-> NumMul(E[i][k], norm[k])],
                               ResourceFields)
            /\ (/\ args.supply = MetricVector(100, 0, 0, None, None)
                /\ args.user_count = 1
                /\ DOMAIN D = {"vm1", "vm2"}
                /\ \A i \in DOMAIN D : E[i] = MetricVector(50, 0, 0, "user_" \o i, i)
                /\ D["vm1"][1] = MetricVector(90, 0, 0, "user_vm1", "vm1")
                /\ D["vm2"][1] = MetricVector(10, 0, 0, "user_vm2", "vm2"))
               => /\ result["vm1"].heaviness = PyFloat(40, 600)
                  /\ result["vm2"].heaviness = PyFloat(-40, 600)

\* C22: when no instance demands more than its endowment in any resource,
\* Metric.map assigns the heaviness 0 to every instance.
C22_NoExcessNoHeaviness ==
    MapReturned =>
        LET args == Val(lastOp.map_args)
            result == Val(lastOp.map_result)
            D == args.demands
            E == args.endowments
        IN  (\A i \in DOMAIN D : \A k \in ResourceFields : NumLe(D[i][1][k], E[i][k]))
                => \A i \in DOMAIN D : NumIsZero(result[i].heaviness)

\* What resource k adds to the heaviness of instance i in the call recorded.
TermOf(args, result, i, k) ==
    GreedinessTerms([n \in DOMAIN args.demands |-> args.endowments[n]],
                    [n \in DOMAIN args.demands |-> args.demands[n][1]],
                    NormOf(result), discount)[i][k]

\* C23: where an instance is under its endowment in a resource whose norm is
\* positive, that resource adds to its heaviness a credit between neg * norm
\* and 0, namely -discount * neg * clamped * norm: proportional to the ratio
\* of over- to under-demand of all instances and at most the own shortfall.
C23_CreditBounded ==
    MapReturned =>
        LET args == Val(lastOp.map_args)
            result == Val(lastOp.map_result)
            norm == NormOf(result)
            D == args.demands
            E == args.endowments
        IN  \A i \in DOMAIN D : \A k \in ResourceFields :
                (NumLt(D[i][1][k], E[i][k]) /\ NumLt(PyFloat(0, 1), norm[k])) =>
                    /\ NumLe(NumMul(NegOf(D, E, i, k), norm[k]), TermOf(args, result, i, k))
                    /\ NumLe(TermOf(args, result, i, k), PyFloat(0, 1))
                    /\ TermOf(args, result, i, k) =
                           NumNeg(NumMul(NumMul(NumMul(discount, NegOf(D, E, i, k)),
                                                ClampedOf(D, E, k)),
                                         norm[k]))

\* C23 happens: an instance under its endowment gets a credit that is
\* neither 0 nor its whole shortfall, while another instance gets the whole.
C23_PartialAndFullCredit ==
    /\ MapReturned
    /\ LET args == Val(lastOp.map_args)
           result == Val(lastOp.map_result)
           norm == NormOf(result)
           D == args.demands
           E == args.endowments
       IN  /\ \E i \in DOMAIN D :
                  /\ NumLt(D[i][1]["cpu_time"], E[i]["cpu_time"])
                  /\ NumLt(PyFloat(0, 1), norm["cpu_time"])
                  /\ NumLt(NumMul(NegOf(D, E, i, "cpu_time"), norm["cpu_time"]),
                           TermOf(args, result, i, "cpu_time"))
                  /\ NumLt(TermOf(args, result, i, "cpu_time"), PyFloat(0, 1))
           /\ \E i \in DOMAIN D :
                  /\ NumLt(D[i][1]["memory_used"], E[i]["memory_used"])
                  /\ NumLt(PyFloat(0, 1), norm["memory_used"])
                  /\ TermOf(args, result, i, "memory_used") =
                         NumMul(NegOf(D, E, i, "memory_used"), norm["memory_used"])

\* C24: whatever the order of the rows, Metric.map returns the same: the
\* heaviness and the normalized endowment of every instance and the global
\* norm do not depend on the order in which the demands are visited, so that
\* the array of heavinesses is permuted as the rows are.
C24_PermutationEquivariant ==
    MapReturned =>
        LET args == Val(lastOp.map_args)
            result == Val(lastOp.map_result)
        IN  \A permuted \in {o \in MetricOrders : Range(o) = Range(args.order) /\ o # args.order} :
                LET other == GreedinessMapIn(permuted, args.supply, args.demands,
                                             args.endowments, args.user_count)
                IN  /\ other["global_norm"] = result["global_norm"]
                    /\ \A i \in Range(args.order) : other[i] = result[i]
                    /\ \A c \in 1..Len(permuted) :
                           other[permuted[c]].heaviness = result[permuted[c]].heaviness

\* C24 happens: two instances of different heaviness, the second visited
\* first.
C24_PermutedRows ==
    /\ MapReturned
    /\ Val(lastOp.map_args).order = <<"vm2", "vm1">>
    /\ IsFinite(Val(lastOp.map_result)["vm1"].heaviness)
    /\ Val(lastOp.map_result)["vm1"].heaviness # Val(lastOp.map_result)["vm2"].heaviness

\* C25: set_metric(name) makes the metric of that name the active one and
\* returns a status of success exactly when a metric class of that name
\* exists; otherwise it returns 'Metric not found on compute host.' and
\* changes nothing of the manager.
C25_SetMetricIffMetricClass ==
    [][lastOp'.op = "set_metric" =>
          IF Val(lastOp'.args) \in MetricClasses
          THEN /\ Val(lastOp'.result).status # "Metric not found on compute host."
               /\ activeMetric'[lastOp'.host].object_name = Val(lastOp'.args)
          ELSE /\ Val(lastOp'.result).status = "Metric not found on compute host."
               /\ UNCHANGED <<envVars, instVars, supplyVars, ruiVars, heavVars, histVars>>]_vars

\* C26: while the servicegroup API is unavailable no peer is known: a check
\* of the readiness finds the registry not ready, the supply poll and the
\* answer to a supply cast no host, Metric.map's result is neither cast nor
\* delivered to the host itself, and receive_heavinesses does not reallocate.
C26_OutageMeansNoPeers ==
    ~oracleUp =>
        /\ ChecksReadiness(lastOp.op) => ~ready[lastOp.host]
        /\ lastOp.op \in {"complete_cloud_supply", "receive_host_supply"} =>
               lastOp.casts = EmptyBag
        /\ lastOp.op = "collect_rui" =>
               /\ lastOp.heav_casts = EmptyBag
               /\ IsNone(lastOp.self_delivered)
               /\ ~lastOp.reallocated
        /\ lastOp.op = "receive_heavinesses" => ~lastOp.reallocated

\* C26 happens: during an outage a heaviness cast arrives at a host, and
\* every queue the host then has holds a heaviness dict.
C26_HeavinessesDuringOutage ==
    /\ ~oracleUp
    /\ lastOp.op = "receive_heavinesses"
    /\ DOMAIN fairnessHeavinesses[lastOp.host] # {}
    /\ \A h \in DOMAIN fairnessHeavinesses[lastOp.host] :
           fairnessHeavinesses[lastOp.host][h] # <<>>

\* A tick of the RUI task that was not skipped.
TickCollected == lastOp.op = "collect_rui" /\ ~lastOp.skipped

\* C27: the user count of a tick is the one the allocator reports if it
\* reports one and the one the registry counts otherwise, and 1 in place of
\* a value that is not positive; the quota is the cloud supply divided by it
\* and Metric.map receives it.
C27_UserCountAtLeastOne ==
    TickCollected =>
        LET reported == allocUserCount[lastOp.host]
            preferred == IF ~IsNone(reported) THEN Val(reported) ELSE CloudUserCount
            used == IF preferred <= 0 THEN 1 ELSE preferred
        IN  /\ used >= 1
            /\ Val(lastOp.user_count) = used
            /\ fairnessQuota[lastOp.host] =
                   DivNumber(Val(lastOp.cloud_supply), PyInt(used))
            /\ ~IsNone(lastOp.map_args) => Val(lastOp.map_args).user_count = used

\* C27 happens: Metric.map is called with the user count of the allocator
\* although the registry counts another.
C27_AllocatorCountMapped ==
    /\ TickCollected
    /\ ~IsNone(lastOp.map_args)
    /\ allocUserCount[lastOp.host] = Some(3)
    /\ CloudUserCount = 2
    /\ Val(lastOp.map_args).user_count = 3

\* The factor by which get_overcommitment inflates each resource.
OvercommitOf(k) ==
    CASE k = "cpu_time" -> cpu_allocation_ratio
      [] k \in {"disk_bytes_read", "disk_bytes_written"} -> disk_allocation_ratio
      [] k = "memory_used" -> ram_allocation_ratio
      [] OTHER -> PyInt(1)

\* C28: a tick of the RUI task calls Metric.map exactly when the registry is
\* ready, the demands and the endowments it gathered are not empty and the
\* interval is known; never on the first tick of the helper; and the supply
\* it passes is the cloud supply of the interval, each resource multiplied
\* by its overcommitment.
C28_MapCalledIffReadyAndMeasured ==
    [][lastOp'.op = "collect_rui" =>
        LET h == lastOp'.host
            interval == timeSinceLastCollection'[h]
            called == ~IsNone(lastOp'.map_args)
        IN  /\ called <=> /\ ready[h]
                          /\ DOMAIN lastOp'.returned # {}
                          /\ DOMAIN helpers'[h].endowments # {}
                          /\ ~IsNone(interval)
            /\ IsNone(lastCollectionTime[h]) => ~called
            /\ called =>
                   LET cloud == GetCloudSupply(h, remoteSupplies'[h], Val(interval))
                   IN  /\ Val(lastOp'.cloud_supply) = cloud
                       /\ \A k \in ResourceFields :
                              Val(lastOp'.map_args).supply[k] = NumMul(cloud[k], OvercommitOf(k))]_vars

\* C28 happens: a tick calls Metric.map with the inflated cloud supply.
C28_MapCalledWithInflatedSupply ==
    /\ lastOp.op = "collect_rui"
    /\ ~IsNone(lastOp.map_args)
    /\ Val(lastOp.map_args).supply.memory_used # Val(lastOp.cloud_supply).memory_used

\* The tags of b are those of a.
SameTags(a, b) ==
    /\ a.compute_host = b.compute_host
    /\ a.user_id = b.user_id
    /\ a.instance_name = b.instance_name

\* The five counters of a ResourceInformation.
CounterFields == ResourceFields \ {"memory_used"}

C30_DivisionByZeroUsesSentinel ==
    /\ lastOp.op = "div_number" =>
           /\ ~lastOp.raised
           /\ ~IsNone(lastOp.result)
           /\ \A k \in ResourceFields :
                  Val(lastOp.result)[k] =
                      PyDiv(Val(lastOp.args).self[k],
                            IF NumIsZero(Val(lastOp.args).number)
                            THEN [Val(lastOp.args).number EXCEPT !.n = -1]
                            ELSE Val(lastOp.args).number)
    /\ lastOp.op = "div_resource" =>
           /\ ~lastOp.raised
           /\ ~IsNone(lastOp.result)
           /\ \A k \in ResourceFields :
                  Val(lastOp.result)[k] =
                      PyDiv(Val(lastOp.args).self[k],
                            IF NumIsZero(Val(lastOp.args).other[k])
                            THEN PyInt(-1)
                            ELSE Val(lastOp.args).other[k])

\* The heaviness cast a step takes out of the casts in flight.
TakenCast ==
    CHOOSE c \in BagToSet(heavCasts) : CopiesIn(c, heavCasts') < CopiesIn(c, heavCasts)

\* The queues after are the queues before with the dict heavinesses, less
\* its compute_host, at the tail of the queue of that host, but for the
\* queues of departed hosts removed afterwards and, if a reallocation
\* started, the dict it took off the head of every queue.
EnqueuedAtTail(before, after, heavinesses, started) ==
    LET from == heavinesses["compute_host"]
        stripped == [k \in (DOMAIN heavinesses) \ {"compute_host"} |-> heavinesses[k]]
        held(h) == IF h = from
                   THEN (IF h \in DOMAIN before THEN before[h] ELSE <<>>) \o <<stripped>>
                   ELSE before[h]
    IN  /\ DOMAIN after \subseteq (DOMAIN before) \cup {from}
        /\ \A h \in ((DOMAIN before) \cup {from}) \ (DOMAIN after) : h \notin members
        /\ \A h \in DOMAIN after :
               after[h] = IF started THEN Tail(held(h)) ELSE held(h)

\* C31: a heaviness dict received, from a peer or from the host's own
\* _map_rui, goes without its compute_host to the tail of the queue of its
\* host, which is created if the host has none; the dicts queued before stay
\* in their order, and the queues of the other hosts and of the other
\* managers are as they were.
C31_EnqueuedAtTailInArrivalOrder ==
    [][/\ lastOp'.op = "receive_heavinesses" =>
              /\ EnqueuedAtTail(fairnessHeavinesses[lastOp'.host],
                                fairnessHeavinesses'[lastOp'.host],
                                TakenCast.heavinesses,
                                lastOp'.reallocated
                                    /\ triggers'[lastOp'.host] = triggers[lastOp'.host])
              /\ \A h \in Hosts \ {lastOp'.host} :
                     fairnessHeavinesses'[h] = fairnessHeavinesses[h]
       /\ (lastOp'.op = "collect_rui" /\ ~IsNone(lastOp'.self_delivered)) =>
              /\ EnqueuedAtTail(fairnessHeavinesses[lastOp'.host],
                                fairnessHeavinesses'[lastOp'.host],
                                Val(lastOp'.self_delivered),
                                lastOp'.reallocated
                                    /\ triggers'[lastOp'.host] = triggers[lastOp'.host])
              /\ \A h \in Hosts \ {lastOp'.host} :
                     fairnessHeavinesses'[h] = fairnessHeavinesses[h]]_vars

\* C31 happens: a dict from a peer is queued behind an earlier dict of that
\* peer.
C31_QueuedBehindEarlier ==
    /\ lastOp.op = "receive_heavinesses"
    /\ lastOp.remote_address # lastOp.host
    /\ lastOp.remote_address \in DOMAIN fairnessHeavinesses[lastOp.host]
    /\ Len(fairnessHeavinesses[lastOp.host][lastOp.remote_address]) >= 2

\* The dict the last step delivers to receive_heavinesses.
DeliveredHeavinesses ==
    IF lastOp'.op = "receive_heavinesses" THEN TakenCast.heavinesses
    ELSE Val(lastOp'.self_delivered)

\* C32 as stated: a delivery leaves queues of members only, and it calls
\* reallocate() if and only if every queue left after the removal of the
\* departed hosts' queues holds a dict.
C32_PurgedThenAllNonEmpty ==
    [][HeavinessesReceived' =>
        LET self == lastOp'.host
            before == fairnessHeavinesses[self]
            from == DeliveredHeavinesses["compute_host"]
            remaining == {h \in (DOMAIN before) \cup {from} : h \in members}
        IN  /\ DOMAIN fairnessHeavinesses'[self] = remaining
            /\ lastOp'.reallocated <=>
                   \A h \in remaining : h = from \/ before[h] # <<>>]_vars

\* C32: while the servicegroup API answers, a delivery removes the queue of
\* every host that is not a member, the sender's included, and calls
\* reallocate() if and only if every queue left holds a dict; the queues it
\* leaves and the queues reallocate() is called on are queues of members.
\* While the API does not answer, it removes no queue and does not call
\* reallocate().
C32_PurgedThenAllNonEmptyIfAvailable ==
    [][HeavinessesReceived' =>
        LET self == lastOp'.host
            before == fairnessHeavinesses[self]
            from == DeliveredHeavinesses["compute_host"]
            remaining == {h \in (DOMAIN before) \cup {from} : h \in members}
        IN  IF oracleUp
            THEN /\ DOMAIN fairnessHeavinesses'[self] = remaining
                 /\ lastOp'.reallocated <=>
                        \A h \in remaining : h = from \/ before[h] # <<>>
                 /\ lastOp'.reallocated => lastOp'.queued = remaining
            ELSE /\ DOMAIN fairnessHeavinesses'[self] = (DOMAIN before) \cup {from}
                 /\ ~lastOp'.reallocated]_vars

\* C32 happens: a dict arrives from a host that has left the service group;
\* its queue is gone afterwards and the queue of a member is left.
C32_DictOfDepartedHostDiscarded ==
    /\ lastOp.op = "receive_heavinesses"
    /\ oracleUp
    /\ lastOp.remote_address \notin members
    /\ lastOp.remote_address \notin DOMAIN fairnessHeavinesses[lastOp.host]
    /\ DOMAIN fairnessHeavinesses[lastOp.host] # {}

\* The sum of the values of a function with a finite domain.
RECURSIVE TotalOf(_)
TotalOf(f) ==
    IF DOMAIN f = {} THEN 0
    ELSE LET x == CHOOSE y \in DOMAIN f : TRUE
         IN  f[x] + TotalOf([y \in (DOMAIN f) \ {x} |-> f[y]])

\* The capacity of a HostSupply in the resource k.
CapacityOf(supply, k) ==
    CASE k = "cpu_time" -> supply.cpu_cores_weighted
      [] k \in {"disk_bytes_read", "disk_bytes_written"} -> supply.disk_speeds
      [] k \in {"network_bytes_received", "network_bytes_transmitted"} ->
             supply.network_throughput
      [] OTHER -> supply.memory_used

\* The interval a tick that ran computed its supplies for: the interval of
\* the helper, or the uptime of the host at its first tick.
SupplyIntervalOf(a) ==
    IF IsNone(timeSinceLastCollection[a]) THEN now - BootTimeOf[a]
    ELSE Val(timeSinceLastCollection[a])

\* The registry of host a holds the hosts the oracle lists, and a itself.
RegistryOfLiveAndSelf(a) ==
    oracleUp => DOMAIN remoteSupplies[a] \subseteq members \cup {a}

\* C33 as stated: a tick that ran leaves no registry entry of a host that is
\* not live, its cloud supply is in each of the six resources the sum over
\* the entries of capacity x interval, and its host supply is capacity x
\* interval of the local supply.
C33_SupplyIsCapacityTimesInterval ==
    TickRan =>
        LET a == lastOp.host
            rs == remoteSupplies[a]
        IN  /\ RegistryOfLiveAndSelf(a)
            /\ \A k \in ResourceFields :
                   /\ Val(lastOp.cloud_supply)[k] =
                          PyInt(TotalOf([h \in DOMAIN rs |->
                                            CapacityOf(rs[h], k) * SupplyIntervalOf(a)]))
                   /\ Val(lastOp.host_supply)[k] =
                          PyInt(CapacityOf(localSupply[a], k) * SupplyIntervalOf(a))

\* C33: a tick that ran leaves, if the oracle is available, no registry
\* entry of a host that is not live other than its own; its cloud supply is
\* the sum over the entries of capacity x interval in the five counters and
\* of the installed memory, not multiplied, in memory_used; its host supply
\* is the same of the local supply alone.
C33_SupplyIsCapacityTimesIntervalButMemory ==
    TickRan =>
        LET a == lastOp.host
            rs == remoteSupplies[a]
        IN  /\ RegistryOfLiveAndSelf(a)
            /\ \A k \in ResourceFields :
                   LET over == IF k = "memory_used" THEN 1 ELSE SupplyIntervalOf(a)
                   IN  /\ Val(lastOp.cloud_supply)[k] =
                              PyInt(TotalOf([h \in DOMAIN rs |-> CapacityOf(rs[h], k) * over]))
                       /\ Val(lastOp.host_supply)[k] =
                              PyInt(CapacityOf(localSupply[a], k) * over)

\* C33 happens: a tick computes the supplies of two seconds from a registry
\* with the entries of two hosts.
C33_CloudSupplyOfTwoHosts ==
    /\ TickRan
    /\ SupplyIntervalOf(lastOp.host) = 2
    /\ DOMAIN remoteSupplies[lastOp.host] = Hosts
    /\ Val(lastOp.cloud_supply).cpu_time = PyInt(12)
    /\ Val(lastOp.host_supply).memory_used = PyInt(4)

\* The statistics hold a sample, or a prioritization, of instance v.
HoldsRui(stats, v) ==
    v \in DOMAIN stats.instances /\ "rui" \in DOMAIN stats.instances[v]

HoldsPrioritization(stats, v) ==
    v \in DOMAIN stats.instances /\ "prioritization" \in DOMAIN stats.instances[v]

\* The step is a tick that hands a sample of instance v to the statistics:
\* it samples v and has a full demand of v from an earlier tick.
RuiAdded(v) ==
    /\ lastOp'.op = "collect_rui"
    /\ v \in DOMAIN lastOp'.sampled
    /\ v \in DOMAIN helpers[lastOp'.host].full_demands
    /\ v \in DOMAIN helpers[lastOp'.host].interval_demands

\* The step hands a prioritization of instance v to the statistics.
PrioritizationAdded(v) ==
    /\ lastOp'.op = "add_prioritization"
    /\ Val(lastOp'.args).instance_name = v

\* What a step that adds a sample or a prioritization of v does to the
\* statistics: it appends one row if the other of the two was waiting and
\* none otherwise, the row is of v, of what was added and of what was
\* waiting, and afterwards neither waits; without a row, what was added
\* waits afterwards and nothing else of v has changed.
PairedOrKept(v) ==
    LET before == helpers[lastOp'.host].rui_stats
        after == helpers'[lastOp'.host].rui_stats
        sample == lastOp'.sampled[v]
        last == helpers[lastOp'.host].full_demands[v]
        paired == IF RuiAdded(v) THEN HoldsPrioritization(before, v)
                  ELSE HoldsRui(before, v)
    IN  IF paired
        THEN /\ Len(after.rows) = Len(before.rows) + 1
             /\ SubSeq(after.rows, 1, Len(before.rows)) = before.rows
             /\ after.rows[Len(after.rows)].instance = v
             /\ after.rows[Len(after.rows)].heaviness =
                    IF RuiAdded(v) THEN before.instances[v]["prioritization"].heaviness
                    ELSE Val(lastOp'.args).prioritization.heaviness
             /\ after.rows[Len(after.rows)].disk_bytes_transferred =
                    IF RuiAdded(v)
                    THEN PyInt((sample.disk_bytes_written.n - last.disk_bytes_written.n)
                               + (sample.disk_bytes_read.n - last.disk_bytes_read.n))
                    ELSE NumAdd(before.instances[v]["rui"].disk_bytes_written,
                                before.instances[v]["rui"].disk_bytes_read)
             /\ ~HoldsRui(after, v)
             /\ ~HoldsPrioritization(after, v)
        ELSE /\ after.rows = before.rows
             /\ IF RuiAdded(v)
                THEN /\ HoldsRui(after, v)
                     /\ after.instances[v]["rui"].memory_used = sample.memory_used
                     /\ after.instances[v]["interval"] = Val(timeSinceLastCollection'[lastOp'.host])
                     /\ ~HoldsPrioritization(after, v)
                ELSE /\ HoldsPrioritization(after, v)
                     /\ after.instances[v]["prioritization"] = Val(lastOp'.args).prioritization
                     /\ ~HoldsRui(after, v)

\* The names of the instances of the model.
InstanceNames == UNION {DOMAIN instances[h] : h \in Hosts}

\* C34 as stated: with the export enabled, a row of v is written exactly
\* when a sample and a prioritization of v are both present, writing clears
\* both, and every tick's sample of v gets its row: when a tick adds a
\* sample, no sample of an earlier tick is still waiting for its row.
C34_OneRowPerInstanceAndTick ==
    [][\A v \in InstanceNames :
          (RuiAdded(v) \/ PrioritizationAdded(v)) =>
              /\ PairedOrKept(v)
              /\ RuiAdded(v) => ~HoldsRui(helpers[lastOp'.host].rui_stats, v)]_vars

\* C34: with the export enabled, a row of v is written exactly when a
\* sample and a prioritization of v are both present, it pairs the two, and
\* writing clears both; a sample or a prioritization that arrives while an
\* earlier one of v waits takes its place, and the earlier one gets no row.
C34_RowPairsSampleAndPrioritization ==
    [][\A v \in InstanceNames :
          (RuiAdded(v) \/ PrioritizationAdded(v)) =>
              /\ PairedOrKept(v)
              /\ \A w \in DOMAIN helpers[lastOp'.host].rui_stats.instances :
                     w # v => /\ w \in DOMAIN helpers'[lastOp'.host].rui_stats.instances
                              /\ helpers'[lastOp'.host].rui_stats.instances[w] =
                                     helpers[lastOp'.host].rui_stats.instances[w]]_vars

\* C34 happens: two rows of an instance have been written, the second by a
\* prioritization that found a sample waiting.
C34_TwoRowsWritten ==
    /\ lastOp.op = "add_prioritization"
    /\ Len(helpers[lastOp.host].rui_stats.rows) = 2
    /\ helpers[lastOp.host].rui_stats.rows[2].heaviness =
           Val(lastOp.args).prioritization.heaviness
    /\ helpers[lastOp.host].rui_stats.rows[1].instance = "vmB"
    /\ ~HoldsRui(helpers[lastOp.host].rui_stats, "vmB")

\* C35: the supply casts do not go back and forth. Only a supply poll adds
\* to the supply casts in flight; receive_host_supply takes the cast it
\* handles and makes at most one cast, to the remote address of the cast
\* handled and without a remote address of its own; and a cast without a
\* remote address, as every such answer is, is answered by no cast.
C35_AnswerIsNotAnswered ==
    [][/\ BagCardinality(supplyCasts') > BagCardinality(supplyCasts) =>
              lastOp'.op = "complete_cloud_supply"
       /\ lastOp'.op = "complete_cloud_supply" =>
              \A c \in BagToSet(lastOp'.casts) : c.remote_address = lastOp'.host
       /\ lastOp'.op = "receive_host_supply" =>
              /\ BagCardinality(lastOp'.casts) <= 1
              /\ BagCardinality(supplyCasts') =
                     BagCardinality(supplyCasts) - 1 + BagCardinality(lastOp'.casts)
              /\ \A c \in BagToSet(lastOp'.casts) :
                     /\ c.to = lastOp'.remote_address
                     /\ c.remote_address = None
              /\ lastOp'.remote_address = None => lastOp'.casts = EmptyBag]_vars

\* C35 happens: the answer to a poll is handled; its supply is added and no
\* cast is made, and no supply cast is left in flight.
C35_AnswerHandled ==
    /\ lastOp.op = "receive_host_supply"
    /\ lastOp.remote_address = None
    /\ Val(lastOp.added).compute_host # lastOp.host
    /\ Val(lastOp.added).compute_host \in DOMAIN remoteSupplies[lastOp.host]
    /\ lastOp.casts = EmptyBag
    /\ supplyCasts = EmptyBag


\* C36: the registry of every manager holds the supply of the manager's own
\* host, from construction on and after every purge, whether or not the
\* service group lists the host; the host is not among its own missing
\* hosts, and no supply poll is cast by a host to itself.
C36_OwnSupplyStaysInRegistry ==
    \A self \in Hosts :
        /\ self \in DOMAIN remoteSupplies[self]
        /\ remoteSupplies[self][self].compute_host = self
        /\ self \notin MissingHosts(remoteSupplies[self])
        /\ \A c \in BagToSet(PollCasts(self)) : c.to # self
        /\ (lastOp.op = "complete_cloud_supply" /\ lastOp.host = self) =>
               \A c \in BagToSet(lastOp.casts) : c.to # self

\* C36 happens: a manager whose host the available oracle does not list has
\* purged its registry in a collection and still holds its own supply.
C36_PurgedWhileNotListed ==
    /\ lastOp.op = "collect_rui"
    /\ ~lastOp.skipped
    /\ oracleUp
    /\ lastOp.host \notin members
    /\ lastOp.host \in DOMAIN remoteSupplies[lastOp.host]


\* C37: the three dicts of every collection helper have the same keys, at
\* construction and after every RUI tick, and whenever Metric.map is called
\* every instance of the demands handed to it has an endowment among the
\* endowments handed to it.
C37_HelperDictsShareKeys ==
    /\ \A h \in Hosts :
           /\ DOMAIN helpers[h].endowments = DOMAIN helpers[h].full_demands
           /\ DOMAIN helpers[h].full_demands = DOMAIN helpers[h].interval_demands
    /\ (lastOp.op = "collect_rui" /\ ~IsNone(lastOp.map_args)) =>
           /\ DOMAIN Val(lastOp.map_args).demands = DOMAIN Val(lastOp.map_args).endowments
           /\ Val(lastOp.map_args).endowments = helpers[lastOp.host].endowments
           /\ DOMAIN lastOp.returned = DOMAIN helpers[lastOp.host].endowments

\* C37 happens: a tick has called Metric.map for vmB2 while vmB, whose domain
\* is no longer active, is an instance of the host and a key of none of the
\* three dicts.
C37_MapCalledAfterRemoval ==
    /\ lastOp.op = "collect_rui"
    /\ ~IsNone(lastOp.map_args)
    /\ "vmB" \in DOMAIN instances[lastOp.host]
    /\ ~domains["vmB"].active
    /\ DOMAIN helpers[lastOp.host].endowments = {"vmB2"}
    /\ DOMAIN Val(lastOp.map_args).demands = {"vmB2"}
    /\ ~IsNone(helpers[lastOp.host].interval_demands["vmB2"])


\* The sum over the instances of demand minus endowment in resource k, for
\* the call recorded.
ExcessOf(args, k) ==
    NpSum([i \in DOMAIN args.demands |->
              NumSub(args.demands[i][1][k], args.endowments[i][k])],
          DOMAIN args.demands)

\* What resource k adds to the heavinesses of all instances together is the
\* norm times the positive part of the excess.
ContributionsSumToExcess(args, result, k) ==
    NpSum([i \in DOMAIN args.demands |-> TermOf(args, result, i, k)],
          DOMAIN args.demands)
    = NumMul(Gez(ExcessOf(args, k)), NormOf(result)[k])

\* C38: in every resource whose norm is positive, what the resource adds to
\* the heavinesses of all instances together is the norm times the excess of
\* the demands over the endowments, summed over the instances, if that sum
\* is positive, and 0 otherwise: the credits cancel the charges, or leave
\* the uncovered excess.
C38_ContributionsSumToUncoveredExcess ==
    MapReturned =>
        \A k \in ResourceFields :
            NumLt(PyFloat(0, 1), NormOf(Val(lastOp.map_result))[k]) =>
                ContributionsSumToExcess(Val(lastOp.map_args), Val(lastOp.map_result), k)

\* The same for the resources whose supply is not 0, the norm of which is
\* finite.
FiniteNormContributionsSumToExcess ==
    MapReturned =>
        \A k \in ResourceFields :
            (/\ NumLt(PyFloat(0, 1), NormOf(Val(lastOp.map_result))[k])
             /\ IsFinite(NormOf(Val(lastOp.map_result))[k])) =>
                ContributionsSumToExcess(Val(lastOp.map_args), Val(lastOp.map_result), k)

\* In cpu_time one instance is over and one under its endowment; the
\* shortfall is larger than the excess and the contributions, neither of
\* them 0, sum to 0; in memory_used there is an uncovered excess.
CreditsCancelCharges ==
    /\ MapReturned
    /\ LET args == Val(lastOp.map_args)
           result == Val(lastOp.map_result)
           norm == NormOf(result)
       IN  /\ DOMAIN args.demands = {"vm1", "vm2"}
           /\ IsFinite(norm["cpu_time"])
           /\ NumLt(PyFloat(0, 1), TermOf(args, result, "vm1", "cpu_time"))
           /\ NumLt(TermOf(args, result, "vm2", "cpu_time"), PyFloat(0, 1))
           /\ NumLt(ExcessOf(args, "cpu_time"), PyFloat(0, 1))
           /\ NumIsZero(NumAdd(TermOf(args, result, "vm1", "cpu_time"),
                               TermOf(args, result, "vm2", "cpu_time")))
           /\ IsFinite(norm["memory_used"])
           /\ NumLt(PyFloat(0, 1), ExcessOf(args, "memory_used"))


\* The instances the tick of host h that has just run assigned an endowment
\* to: those with an active domain, if some instance is in the vm_state
\* active.
EndowedInTick(h) ==
    IF \E n \in DOMAIN instances[h] : instances[h][n].vm_state = "active"
    THEN {n \in DOMAIN instances[h] : domains[n].active}
    ELSE {}

\* The endowments assigned in the tick of host h sum in resource k to at most
\* the supply of the host for the interval of the tick.
EndowmentsWithinSupply(h, k) ==
    NumLe(NpSum([n \in EndowedInTick(h) |-> helpers[h].endowments[n][k]], EndowedInTick(h)),
          Val(lastOp.host_supply)[k])

\* C39: in every RUI tick and for each of the five counters, the endowments
\* assigned to the instances in the tick sum to at most the supply of the
\* host for the interval, whatever the vm_state, the activity of the domain
\* and the vcpus of every instance.
C39_EndowmentsWithinHostSupply ==
    (lastOp.op = "collect_rui" /\ ~lastOp.skipped) =>
        \A k \in CounterFields : EndowmentsWithinSupply(lastOp.host, k)

\* The same for cpu_time alone, and for all five counters in the ticks in
\* which every instance with an active domain is in the vm_state active.
EndowmentsWithinSupplyWhereCounted ==
    (lastOp.op = "collect_rui" /\ ~lastOp.skipped) =>
        /\ EndowmentsWithinSupply(lastOp.host, "cpu_time")
        /\ (\A n \in EndowedInTick(lastOp.host) :
                instances[lastOp.host][n].vm_state = "active") =>
               \A k \in CounterFields : EndowmentsWithinSupply(lastOp.host, k)

=============================================================================
